---- MODULE Spec2Model ----
(***************************************************************************)
(* Snappier notification webhook: the deduplicator, the /notify request    *)
(* pipeline and the Pushover delivery loop of notify/enhanced_webhook.py.  *)
(***************************************************************************)
EXTENDS Integers, Sequences, FiniteSets, TLC

VARIABLES
    now,                 \* time.time(), whole seconds
    ticks,               \* clock advances made so far
    notification_cache,  \* _notification_cache: OrderedDict as a sequence of [key, at]
    prev_cache,          \* _notification_cache as it was before the latest call
    calls,               \* history of _check_and_record_notification calls
    po_configured,       \* PO_USER and PO_TOKEN are both set
    api_enabled,         \* SNAPPY_API_ENABLED
    guide,               \* what the file at EPG_CACHE holds
    pc,                  \* where each /notify request stands
    payload,             \* the body each request carries
    trace,               \* what each request has called so far, in order
    waits,               \* the asyncio.sleep() delays of each request's delivery, in order
    attempt,             \* pushover_send's loop variable
    meta,                \* notify's meta: the programme record of each request, if any
    used_api,            \* notify's used_api
    response,            \* what each request was answered
    composed,            \* what each request's body is written from, and its catalog answer
    message,             \* the body each request gave to pushover_send
    asked,               \* the calls each request made of the resolvers, with their arguments
    epg_file,            \* the file at EPG_CACHE
    changes,             \* how many times the guide file has been replaced
    epg_cache_data,      \* _epg_cache_data
    epg_cache_mtime,     \* _epg_cache_mtime
    epg_index,           \* _epg_index
    epg_channel_display, \* _epg_channel_display
    cache_stats,         \* _cache_stats
    epg_index_max_size,  \* EPG_INDEX_MAX_SIZE as the environment sets it
    lookups,             \* the calls of cache_find_program under way, one per caller
    bounded_dict,        \* a BoundedDict: its (key, value) pairs, oldest first
    bd_max_size,         \* BoundedDict.max_size
    bd_prev,             \* the BoundedDict as it was before the latest operation
    bd_uses,             \* the operations made on the BoundedDict, in order
    query,               \* the arguments of a direct call of cache_find_program
    matched,             \* what that call returned
    hit_list,            \* the list a direct call of _pick_best_from_list is given
    picked,              \* what that call returned
    probe,               \* the call of _probe_https_once under way
    probe_calls,         \* the calls of _probe_https_once made so far, in order
    tmdb_on,             \* TMDB_ENABLED and TMDB_API_KEY are both set
    tmdb_calls,          \* the calls of search_tmdb_movie and search_tmdb_tv made so far, in order
    watch,               \* the health watcher: its failure count, its last warning time, its clock and its arguments
    watch_log,           \* the rounds of the health watcher, oldest first
    client,              \* the NotificationClient: ws, ws_connected, reconnect_attempts
    conn,                \* the connection thread of the client: where it is and how long it has slept
    client_log,          \* the first disconnect of the client and its reconnects since the latest open
    ws_calls             \* the latest call of notify_ws, if any

clockVars == <<now, ticks>>
dedupVars == <<notification_cache, prev_cache, calls>>
envVars == <<po_configured, api_enabled, guide>>
reqVars == <<pc, payload, trace, waits, attempt, meta, used_api, composed, message, asked, response>>

lruVars == <<bounded_dict, bd_max_size, bd_prev, bd_uses>>
matchVars == <<query, matched, hit_list, picked>>
\* what neither the request pipeline nor the guide loader writes
\* the state of the components beside the request pipeline
watchVars == <<watch, watch_log>>
clientVars == <<client, conn, client_log, ws_calls>>
sideVars == <<probe, probe_calls, tmdb_on, tmdb_calls, watchVars, clientVars>>
fixedVars == <<envVars, lruVars, matchVars, sideVars>>

epgVars == <<epg_cache_data, epg_cache_mtime, epg_index, epg_channel_display, cache_stats>>
guideVars == <<epg_file, changes, epgVars, epg_index_max_size, lookups>>
pipelineVars == <<clockVars, dedupVars, fixedVars, reqVars>>

vars == <<now, ticks, notification_cache, prev_cache, calls, po_configured, api_enabled,
          guide, pc, payload, trace, waits, attempt, meta, used_api, composed, message, asked,
          response,
          epg_file, changes, epg_cache_data, epg_cache_mtime, epg_index,
          epg_channel_display, cache_stats, epg_index_max_size, lookups,
          bounded_dict, bd_max_size, bd_prev, bd_uses, query, matched, hit_list, picked,
          probe,
          probe_calls,
          tmdb_on,
          tmdb_calls,
          watch,
          watch_log,
          client,
          conn,
          client_log,
          ws_calls>>

-----------------------------------------------------------------------------
(* Bounds of the model *)

MaxTicks == 2
MaxCalls == 3
MaxLookups == 2
MaxChanges == 2

\* the clock advances by one of these amounts (seconds)
ClockSteps == {30, 60}

-----------------------------------------------------------------------------
(* Notification deduplication cache *)

NOTIFICATION_DEDUP_WINDOW == 60
NOTIFICATION_CACHE_MAX == 1000

\* f"{action}:{job_id_full}:{file_path}"; md5 is taken to be injective on these strings
DedupKey(action, job_id_full, file_path) ==
    action \o ":" \o job_id_full \o ":" \o file_path

CacheKeys(cache) == {cache[i].key : i \in 1..Len(cache)}

CachePos(cache, key) == CHOOSE i \in 1..Len(cache) : cache[i].key = key

CacheAt(cache, key) == cache[CachePos(cache, key)].at

CacheWithout(cache, key) == SelectSeq(cache, LAMBDA e : e.key # key)

\* popitem() without last=False removes the newest entry
RECURSIVE EvictNewest(_)
EvictNewest(cache) ==
    IF Len(cache) > NOTIFICATION_CACHE_MAX
    THEN EvictNewest(SubSeq(cache, 1, Len(cache) - 1))
    ELSE cache

\* while len(_notification_cache) > 1000: popitem(last=False)
RECURSIVE EvictOldest(_)
EvictOldest(cache) ==
    IF Len(cache) > NOTIFICATION_CACHE_MAX THEN EvictOldest(Tail(cache)) ELSE cache

\* the mutant of WithinWindow: the window bound is inclusive
WithinWindowInclusive(elapsed) == elapsed <= NOTIFICATION_DEDUP_WINDOW

WithinWindow(elapsed) == elapsed < NOTIFICATION_DEDUP_WINDOW

\* the mutant of OnDuplicate: a duplicate refreshes the stored timestamp
OnDuplicateRefresh(cache, key, current_time) ==
    Append(CacheWithout(cache, key), [key |-> key, at |-> current_time])

\* return (True, elapsed): the mapping is not written
OnDuplicate(cache, key, current_time) == cache

\* a mutant of RecordNotification: the size bound drops the newest entries
RecordNotificationDropNewest(cache, key, current_time) ==
    EvictNewest(Append(CacheWithout(cache, key), [key |-> key, at |-> current_time]))

\* the mutant of RecordNotification: the record is not written
RecordNotificationLost(cache, key, current_time) == cache

\* a mutant of RecordNotification: the expired entry is not deleted first, so
\* the write leaves the key where it was
RecordNotificationInPlace(cache, key, current_time) ==
    IF key \in CacheKeys(cache)
    THEN [i \in 1..Len(cache) |->
            IF cache[i].key = key THEN [key |-> key, at |-> current_time] ELSE cache[i]]
    ELSE EvictOldest(Append(cache, [key |-> key, at |-> current_time]))

\* del of the expired entry, the write, then the size bound
RecordNotification(cache, key, current_time) ==
    EvictOldest(Append(CacheWithout(cache, key), [key |-> key, at |-> current_time]))

CheckAndRecord(cache, key, current_time) ==
    IF key \in CacheKeys(cache) /\ WithinWindow(current_time - CacheAt(cache, key))
    THEN [dup |-> TRUE, elapsed |-> current_time - CacheAt(cache, key),
          cache |-> OnDuplicate(cache, key, current_time)]
    ELSE [dup |-> FALSE, elapsed |-> 0,
          cache |-> RecordNotification(cache, key, current_time)]

\* the mutant of DoCheckAndRecord: the check is made, the record is left for later
DoCheckRecordLater(key) ==
    LET res == CheckAndRecord(notification_cache, key, now) IN
    /\ notification_cache' = notification_cache
    /\ prev_cache' = notification_cache
    /\ calls' = Append(calls, [key |-> key, at |-> now, dup |-> res.dup,
                               elapsed |-> res.elapsed,
                               held |-> key \in CacheKeys(notification_cache),
                               seed |-> FALSE])

\* one call of _check_and_record_notification at the current clock reading
DoCheckAndRecord(key) ==
    LET res == CheckAndRecord(notification_cache, key, now) IN
    /\ notification_cache' = res.cache
    /\ prev_cache' = notification_cache
    /\ calls' = Append(calls, [key |-> key, at |-> now, dup |-> res.dup,
                               elapsed |-> res.elapsed,
                               held |-> key \in CacheKeys(notification_cache),
                               seed |-> FALSE])

-----------------------------------------------------------------------------
(* The clock *)

Tick ==
    /\ ticks < MaxTicks
    /\ \E d \in ClockSteps : now' = now + d
    /\ ticks' = ticks + 1
    /\ UNCHANGED <<dedupVars, fixedVars, guideVars, reqVars>>

-----------------------------------------------------------------------------
(* /notify payloads *)

Requests == {"r1", "r2"}

\* an action value as sent: absent, not a string, or a string made of words
\* joined by "_", possibly padded with blanks and in upper case
NoAction == [kind |-> "absent", pad |-> FALSE, upper |-> FALSE, words |-> << >>]
NonStringAction == [kind |-> "nonstring", pad |-> FALSE, upper |-> FALSE, words |-> << >>]
ActionStr(words, pad, upper) ==
    [kind |-> "string", pad |-> pad, upper |-> upper, words |-> words]

\* a channel value as sent: absent, or region prefix, separator and name
NoChannel == [present |-> FALSE, region |-> "", sep |-> "", name |-> ""]
Chan(region, sep, name) == [present |-> TRUE, region |-> region, sep |-> sep, name |-> name]

ChannelText(c) == c.region \o c.sep \o c.name

\* clean_channel_name: the region prefix and the separators are dropped when a
\* name follows them; a bare prefix stays
clean_channel_name(c) ==
    IF ~c.present THEN ""
    ELSE IF c.name # "" THEN c.name
    ELSE c.region

\* _as_int(x): int(x), or None when int() raises
IntOf(n) == [none |-> FALSE, val |-> n]
NoneInt == [none |-> TRUE, val |-> 0]
as_int(x) ==
    CASE x = "int0" -> IntOf(0)
      [] x = "int1" -> IntOf(1)
      [] x = "str0" -> IntOf(0)
      [] x = "str1" -> IntOf(1)
      [] OTHER -> NoneInt

Body(kind, action, job_id, file, title, channel, start, exit_code) ==
    [body |-> kind, action |-> action, job_id |-> job_id, file |-> file, title |-> title,
     channel |-> channel, start |-> start, exit_code |-> exit_code,
     type |-> "", year |-> "", desc |-> ""]

\* a payload, or an entry of the guide, that carries 'type', 'year' and 'desc'
Described(x, type, year, desc) == [x EXCEPT !.type = type, !.year = year, !.desc = desc]

NoBody == Body("none", NoAction, "", "", "", NoChannel, "", "absent")

\* (payload or {}).get('action', '').strip().lower(): the words of the action
StripLower(a) == a.words

RECURSIVE JoinWords(_)
JoinWords(words) ==
    IF Len(words) = 0 THEN ""
    ELSE IF Len(words) = 1 THEN words[1]
    ELSE words[1] \o "_" \o JoinWords(Tail(words))

StartsWith(words, prefix) == Len(words) >= 2 /\ words[1] = prefix
EndsWith(words, suffix) == Len(words) >= 2 /\ words[Len(words)] = suffix

\* json.loads(body_str) gave something that is neither a dict nor falsy
TruthyNonObject(p) == p.body = "json_nonobject"

\* payload is a dict: a JSON object, {} for an empty body, {'text': ...} for a
\* body that is not JSON
IsObject(p) == p.body \in {"object", "empty", "nonjson"}

\* the fields notify reads from the payload (all absent unless the body is a JSON object)
Field(p) == IF p.body = "object" THEN p ELSE NoBody

\* lines 843-854 raise: .get() on a list, a string or a number; .strip() on an
\* action that is not a string
RaisesBeforeValidation(p) ==
    \/ TruthyNonObject(p)
    \/ Field(p).action.kind = "nonstring"

ActionOf(p) == StripLower(Field(p).action)

FoxNews == Chan("", "", "Fox News")
UsFoxNews == Chan("US", ": ", "Fox News")
Separators == Chan("", "-:", "")
Start1 == "20240101120000+0000"

Exit(words, code) == Body("object", ActionStr(words, FALSE, FALSE), "j1", "/x/a.ts",
                          "Gutfeld!", FoxNews, Start1, code)

RecordingDone(pad, upper, channel) ==
    Body("object", ActionStr(<<"recording", "completed">>, pad, upper), "j1", "/x/a.ts",
         "Gutfeld!", channel, Start1, "absent")

\* the bodies one request is tried with
BodiesOne ==
    { Body("empty", NoAction, "", "", "", NoChannel, "", "absent"),
      Body("nonjson", NoAction, "", "", "", NoChannel, "", "absent"),
      Body("json_falsy", NoAction, "", "", "", NoChannel, "", "absent"),
      Body("json_nonobject", NoAction, "", "", "", NoChannel, "", "absent"),
      Body("object", NoAction, "j1", "/x/a.ts", "Gutfeld!", FoxNews, Start1, "absent"),
      Body("object", NonStringAction, "j1", "/x/a.ts", "Gutfeld!", FoxNews, Start1, "absent"),
      Body("object", ActionStr(<< >>, FALSE, FALSE), "j1", "/x/a.ts", "", NoChannel, "", "absent"),
      Body("object", ActionStr(<< >>, TRUE, FALSE), "j1", "/x/a.ts", "", NoChannel, "", "absent"),
      Exit(<<"recording", "exit">>, "int0"),
      Exit(<<"recording", "exit">>, "int1"),
      Exit(<<"recording", "exit">>, "absent"),
      Exit(<<"recording", "exit">>, "str0"),
      Exit(<<"recording", "exit">>, "junk"),
      Exit(<<"movie", "exit">>, "int0"),
      Exit(<<"movie", "exit">>, "str1"),
      Body("object", ActionStr(<<"catchup", "completed">>, TRUE, TRUE), "abc123",
           "/x/gutfeld.mkv", "Gutfeld!", Chan("", "", ""), Start1, "absent"),
      Body("object", ActionStr(<<"recording", "started">>, FALSE, FALSE), "j2", "/x/b.ts",
           "", UsFoxNews, "", "int0"),
      Body("object", ActionStr(<<"health", "warn">>, FALSE, FALSE), "", "", "", NoChannel,
           "", "absent"),
      Body("object", ActionStr(<<"recording", "failed">>, FALSE, FALSE), "", "", "", NoChannel,
           "", "int1"),
      Body("object", ActionStr(<<"recording", "started">>, FALSE, FALSE), "j3", "/x/c.ts",
           "Gutfeld!", NoChannel, "", "absent"),
      Described(Body("object", ActionStr(<<"movie", "completed">>, FALSE, FALSE), "j4",
                     "/x/d.mkv", "Heat", NoChannel, "", "absent"),
                "Film", "1995", "A heist goes wrong."),
      Body("object", ActionStr(<<"movie", "started">>, FALSE, FALSE), "j4", "/x/d.mkv",
           "Heat", NoChannel, "", "absent"),
      Body("object", ActionStr(<<"series", "completed">>, FALSE, FALSE), "j5", "/x/e.mkv",
           "Gutfeld!", NoChannel, Start1, "absent"),
      RecordingDone(FALSE, FALSE, NoChannel) }

\* the bodies concurrent requests are tried with: the same event twice, spelt
\* differently, and another event
BodiesMany ==
    { RecordingDone(FALSE, FALSE, UsFoxNews),
      RecordingDone(TRUE, TRUE, NoChannel),
      Exit(<<"movie", "exit">>, "int0") }

-----------------------------------------------------------------------------
(* Responses *)

NoPush == [ok |-> "none", status |-> -1, error |-> ""]

\* what pushover_send returns
PushNotConfigured == [ok |-> "false", status |-> -1, error |-> "Pushover not configured"]
PushReplyAccepted == [ok |-> "none", status |-> 1, error |-> ""]
PushReplyRejected == [ok |-> "none", status |-> 0, error |-> "rejected"]
PushHttpError == [ok |-> "false", status |-> 500, error |-> ""]
PushHttpOther == [ok |-> "true", status |-> 202, error |-> ""]
PushTimeout == [ok |-> "false", status |-> -1, error |-> "timeout"]
PushTransport == [ok |-> "false", status |-> -1, error |-> "transport"]

Answer(status, ok, kind, action, pushover, enriched, api, elapsed) ==
    [status |-> status, ok |-> ok, kind |-> kind, action |-> action, pushover |-> pushover,
     enriched |-> enriched, used_api |-> api, elapsed_since_last |-> elapsed]

NoResponse == Answer(0, "none", "pending", << >>, NoPush, FALSE, FALSE, -1)

\* JSONResponse({"ok": False, "error": error_msg}, status_code=400)
MissingAction == Answer(400, "false", "error", << >>, NoPush, FALSE, FALSE, -1)

\* JSONResponse({"ok": True, "deduplicated": True, "elapsed_since_last": ..., "action": action})
Deduplicated(action, elapsed) ==
    Answer(200, "true", "deduplicated", action, NoPush, FALSE, FALSE, elapsed)

\* JSONResponse({"ok": True, "suppressed": True, "reason": "exit_code==0", "action": action})
Suppressed(action) == Answer(200, "true", "suppressed", action, NoPush, FALSE, FALSE, -1)

\* JSONResponse({"ok": True, "pushover": res, "enriched": ..., "used_api": ..., "action": ...})
Result(action, res, enriched, api) ==
    Answer(200, "true", "result", action, res, enriched, api, -1)

\* the handler raised: the server answers 500 with no JSON body
Unhandled == Answer(500, "none", "crash", << >>, NoPush, FALSE, FALSE, -1)

-----------------------------------------------------------------------------
(* Text, as Python's str methods and the re module treat it *)

UpperAlpha == "ABCDEFGHIJKLMNOPQRSTUVWXYZ"
LowerAlpha == "abcdefghijklmnopqrstuvwxyz"
Digits == "0123456789"

CharAt(s, i) == SubSeq(s, i, i)

\* the position of character c in s, 0 when it is not there
IndexIn(c, s) ==
    LET at == {i \in 1..Len(s) : CharAt(s, i) = c}
    IN  IF at = {} THEN 0 ELSE CHOOSE i \in at : \A j \in at : i <= j

LowerChar(c) ==
    LET i == IndexIn(c, UpperAlpha) IN IF i = 0 THEN c ELSE CharAt(LowerAlpha, i)

UpperChar(c) ==
    LET i == IndexIn(c, LowerAlpha) IN IF i = 0 THEN c ELSE CharAt(UpperAlpha, i)

\* str.lower()
RECURSIVE LowerOfText(_)
LowerOfText(s) ==
    IF s = "" THEN "" ELSE LowerChar(CharAt(s, 1)) \o LowerOfText(SubSeq(s, 2, Len(s)))

\* str.upper()
RECURSIVE UpperOfText(_)
UpperOfText(s) ==
    IF s = "" THEN "" ELSE UpperChar(CharAt(s, 1)) \o UpperOfText(SubSeq(s, 2, Len(s)))

\* \s and \w of the re module, on the characters the guide uses
IsSpace(c) == c = " "
IsWord(c) ==
    IndexIn(c, UpperAlpha) # 0 \/ IndexIn(c, LowerAlpha) # 0 \/ IndexIn(c, Digits) # 0 \/ c = "_"

\* str.strip()
RECURSIVE Strip(_)
Strip(s) ==
    IF s = "" THEN ""
    ELSE IF IsSpace(CharAt(s, 1)) THEN Strip(SubSeq(s, 2, Len(s)))
    ELSE IF IsSpace(CharAt(s, Len(s))) THEN Strip(SubSeq(s, 1, Len(s) - 1))
    ELSE s

\* re.sub(r'[^\w\s]', '', s)
RECURSIVE DropPunctuation(_)
DropPunctuation(s) ==
    IF s = "" THEN ""
    ELSE LET c == CharAt(s, 1)
             rest == DropPunctuation(SubSeq(s, 2, Len(s)))
         IN  IF IsWord(c) \/ IsSpace(c) THEN c \o rest ELSE rest

\* a in b
Contains(b, a) == \E i \in 1..(Len(b) - Len(a) + 1) : SubSeq(b, i, i + Len(a) - 1) = a

\* the titles and channel texts of the guides and payloads below; what str
\* methods give for them is computed once
KnownTitles ==
    {"", "Gutfeld!", "Gutfeld", "gutfeld", " GUTFELD", "Gutfeld! Rewind", "Gut", "!", "?",
     "The Five", "Five", "Hannity", "Jeopardy!", "News", "Early Start"}
KnownNames ==
    {"", "Fox News", "US: Fox News", "Fox News Channel", "CNN", "US: CNN", "ABC", "AFN Movies",
     "AFN Sports"}

StrippedOf == [t \in KnownTitles |-> Strip(t)]
LowerOf == [t \in {StrippedOf[x] : x \in KnownTitles} \cup KnownNames |-> LowerOfText(t)]
UpperOf == [t \in KnownNames |-> UpperOfText(t)]

Lower(s) == IF s \in DOMAIN LowerOf THEN LowerOf[s] ELSE LowerOfText(s)
Upper(s) == IF s \in DOMAIN UpperOf THEN UpperOf[s] ELSE UpperOfText(s)

\* (title or '').strip().lower()
TitleKey(title) == Lower(IF title \in KnownTitles THEN StrippedOf[title] ELSE Strip(title))

TitleNormOf == [k \in {TitleKey(t) : t \in KnownTitles} |-> Strip(DropPunctuation(k))]

\* the mutant of TitleNorm: punctuation is kept
TitleNormKept(title_key) == title_key

\* re.sub(r'[^\w\s]', '', title_key).strip()
TitleNorm(title_key) ==
    IF title_key \in DOMAIN TitleNormOf THEN TitleNormOf[title_key]
    ELSE Strip(DropPunctuation(title_key))

\* _normalize_start(raw): seconds since the epoch, or None. The timestamps the
\* model uses, each with the value _parse_timestamp gives it; any other text
\* stands for one that has fewer than six digits
normalize_start(raw) ==
    CASE raw = "20240101120000+0000" -> IntOf(1704110400)
      [] raw = "2024-01-01T12:00:00Z" -> IntOf(1704110400)
      [] raw = "20240101070000-0500" -> IntOf(1704110400)
      [] raw = "20240101120030+0000" -> IntOf(1704110430)
      [] raw = "20240101115900+0000" -> IntOf(1704110340)
      [] raw = "20240101120100+0000" -> IntOf(1704110460)
      [] raw = "20240101120200+0000" -> IntOf(1704110520)
      [] raw = "20240101120640+0000" -> IntOf(1704110800)
      [] raw = "20240101140000+0000" -> IntOf(1704117600)
      [] raw = "20240101100000+0000" -> IntOf(1704103200)
      [] OTHER -> NoneInt

-----------------------------------------------------------------------------
(* The guide file and the index built from it *)

\* an entry of the guide's 'programmes' list; an absent field is "" (NoneInt for priority)
Prog(title, start, channel, priority) ==
    [title |-> title, start |-> start, channel |-> channel, priority |-> priority,
     type |-> "", year |-> "", desc |-> ""]

\* an entry of the guide's 'channels' mapping
ChannelEntry(key, id, displayName) == [key |-> key, id |-> id, displayName |-> displayName]

\* what json.loads gives for the guide file: an object with 'programmes' and
\* 'channels' (the latter a mapping, or wrongly a list), the empty object, or a list
Doc(shape, programmes, channels_shape, channels) ==
    [shape |-> shape, programmes |-> programmes, channels_shape |-> channels_shape,
     channels |-> channels]

EmptyDoc == Doc("empty", << >>, "dict", << >>)
ListDoc == Doc("list", << >>, "dict", << >>)
NoDoc == Doc("none", << >>, "dict", << >>)

\* bool(data)
Truthy(doc) == doc.shape \in {"object", "list"}

\* the file at EPG_CACHE: absent, not JSON, or JSON; mtime is what
\* os.path.getmtime gives (None when the file is absent)
File(kind, mtime, doc) == [kind |-> kind, mtime |-> mtime, doc |-> doc]
NoMtime == -1
MissingFile == File("missing", NoMtime, NoDoc)

\* load_json(path): None for a missing or invalid file
load_json(file) == IF file.kind = "json" THEN file.doc ELSE NoDoc

\* load_json(path) or {}
LoadedData(file) == IF Truthy(load_json(file)) THEN load_json(file) ELSE EmptyDoc

\* an insertion-ordered dict of buckets, each a list of positions in 'programmes'
BucketPos(d, k) ==
    IF \E i \in 1..Len(d) : d[i].key = k THEN CHOOSE i \in 1..Len(d) : d[i].key = k ELSE 0

BucketOf(d, k) == IF BucketPos(d, k) = 0 THEN << >> ELSE d[BucketPos(d, k)].evs

\* d.setdefault(k, []).append(ev)
AddTo(d, k, ev) ==
    IF BucketPos(d, k) = 0 THEN Append(d, [key |-> k, evs |-> <<ev>>])
    ELSE [d EXCEPT ![BucketPos(d, k)].evs = Append(@, ev)]

TITLE_BUCKET_MAX == 50

RECURSIVE SumLen(_)
SumLen(d) == IF d = << >> THEN 0 ELSE Len(d[1].evs) + SumLen(Tail(d))

\* sum of the sizes of all by_start and by_title buckets
IndexTotal(index) == SumLen(index.by_start) + SumLen(index.by_title)

RemoveAt(d, i) == SubSeq(d, 1, i - 1) \o SubSeq(d, i + 1, Len(d))

\* sorted(by_start.keys(), reverse=True)[:n], with their buckets
RECURSIVE NewestKeys(_, _)
NewestKeys(d, n) ==
    IF n = 0 \/ d = << >> THEN << >>
    ELSE LET i == CHOOSE i \in 1..Len(d) : \A j \in 1..Len(d) : d[j].key <= d[i].key
         IN  <<d[i]>> \o NewestKeys(RemoveAt(d, i), n - 1)

\* sorted(by_title.items(), key=lambda x: len(x[1]), reverse=True)[:n]; the
\* sort is stable
RECURSIVE FullestTitles(_, _)
FullestTitles(d, n) ==
    IF n = 0 \/ d = << >> THEN << >>
    ELSE LET i == CHOOSE i \in 1..Len(d) :
                      /\ \A j \in 1..Len(d) : Len(d[j].evs) <= Len(d[i].evs)
                      /\ \A j \in 1..(i - 1) : Len(d[j].evs) < Len(d[i].evs)
         IN  <<d[i]>> \o FullestTitles(RemoveAt(d, i), n - 1)

\* the loop of lines 271-281 from programme i on
RECURSIVE IndexLoop(_, _, _)
IndexLoop(programmes, i, acc) ==
    IF i > Len(programmes) THEN acc
    ELSE LET ev == programmes[i]
             start_key == normalize_start(ev.start)
             title == TitleKey(ev.title)
             a1 == IF start_key.none THEN acc
                   ELSE [acc EXCEPT !.by_start = AddTo(@, start_key.val, i),
                                    !.total_entries = @ + 1]
             a2 == IF title = "" THEN a1
                   ELSE IF Len(BucketOf(a1.by_title, title)) < TITLE_BUCKET_MAX
                   THEN [a1 EXCEPT !.by_title = AddTo(@, title, i), !.total_entries = @ + 1]
                   ELSE a1
         IN  IndexLoop(programmes, i + 1, a2)

NoIndex == [built |-> FALSE, by_start |-> << >>, by_title |-> << >>]

\* lines 284-294: what is kept when total_entries exceeds the ceiling
EnforceLimit(acc, max_size) ==
    LET half == max_size \div 2 IN
    [built |-> TRUE,
     by_start |-> IF Len(acc.by_start) > half THEN NewestKeys(acc.by_start, half)
                  ELSE acc.by_start,
     by_title |-> IF Len(acc.by_title) > half THEN FullestTitles(acc.by_title, half)
                  ELSE acc.by_title]

\* lines 266-294: the index of a snapshot, and whether a size warning is counted
BuildIndex(data, max_size) ==
    LET acc == IndexLoop(data.programmes, 1,
                         [by_start |-> << >>, by_title |-> << >>, total_entries |-> 0])
        over == acc.total_entries > max_size
    IN  [index |-> IF over THEN EnforceLimit(acc, max_size)
                   ELSE [built |-> TRUE, by_start |-> acc.by_start, by_title |-> acc.by_title],
         total_entries |-> acc.total_entries,
         warned |-> over]

\* display.setdefault(variant, disp): the first value of a variant stays
SetDefault(display, variant, disp) ==
    IF variant = "" \/ \E i \in 1..Len(display) : display[i].key = variant THEN display
    ELSE Append(display, [key |-> variant, disp |-> disp])

\* lines 296-307: the channel-display table of a snapshot
RECURSIVE BuildDisplay(_, _)
BuildDisplay(channels, display) ==
    IF channels = << >> THEN display
    ELSE LET e == channels[1]
             chan_id == IF ChannelText(e.id) # "" THEN e.id ELSE e.key
             disp == e.displayName
             d1 == SetDefault(display, ChannelText(e.key), disp)
             d2 == SetDefault(d1, ChannelText(chan_id), disp)
             d3 == SetDefault(d2, clean_channel_name(chan_id), disp)
             d4 == SetDefault(d3, clean_channel_name(Chan("", "", disp)), disp)
         IN  BuildDisplay(Tail(channels), IF disp = "" THEN display ELSE d4)

\* _epg_channel_display.get(key)
DisplayGet(display, key) ==
    IF \E i \in 1..Len(display) : display[i].key = key
    THEN display[CHOOSE i \in 1..Len(display) : display[i].key = key].disp
    ELSE ""

\* data.get('programmes') on a list, or channels.items() on a list, raises
BuildRaises(data) == data.shape = "list" \/ data.channels_shape = "list"

Gutfeld == Prog("Gutfeld!", "20240101120000+0000", Chan("", "", "Fox News"), NoneInt)
TheFive == Prog("The Five", "20240101120000+0000", Chan("", "", "Fox News"), NoneInt)
Hannity == Prog("Hannity", "2024-01-01T12:00:00Z", Chan("US", ": ", "Fox News"), NoneInt)
Jeopardy == Prog("Jeopardy!", "20240101140000+0000", Chan("", "", "ABC"), NoneInt)
Undated == Prog("News", "soon", NoChannel, NoneInt)
Early == Prog("Early Start", "20240101100000+0000", Chan("", "", "CNN"), NoneInt)

FoxEntry == ChannelEntry(Chan("", "", "Fox News"), NoChannel, "Fox News Channel")

\* the snapshots the guide file is given: one under the ceiling of 4 entries,
\* one over it with every start distinct, one over it with one start shared
GuideSmall == Doc("object", <<Gutfeld, Undated>>, "dict", <<FoxEntry>>)
GuideSpread == Doc("object", <<Gutfeld, Jeopardy, Early>>, "dict", <<FoxEntry>>)
GuideSameStart == Doc("object", <<Gutfeld, TheFive, Hannity>>, "dict", <<FoxEntry>>)
GuideBadChannels == Doc("object", <<Gutfeld, Jeopardy, Undated>>, "list", << >>)

\* every snapshot _load_epg_cache can hand to _ensure_epg_index
KnownDocs == {GuideSmall, GuideSpread, GuideSameStart, GuideBadChannels, ListDoc, EmptyDoc}

EPG_INDEX_MAX_SIZE_DEFAULT == 50000
\* line 109: HTTPS_CACHE_MAX_SIZE when the environment does not set it
HTTPS_CACHE_MAX_SIZE_DEFAULT == 1000
\* no direct call of cache_find_program is made
NoQuery == [kind |-> "none"]
NotCalled == [kind |-> "not_called"]

\* the ceilings the environment is given
KnownCeilings == {4, EPG_INDEX_MAX_SIZE_DEFAULT}

\* BuildIndex and BuildDisplay of the known snapshots, computed once
IndexOf == [doc \in KnownDocs, max_size \in KnownCeilings |-> BuildIndex(doc, max_size)]
DisplayOf == [doc \in KnownDocs |-> BuildDisplay(doc.channels, << >>)]

-----------------------------------------------------------------------------
(* cache_find_program: candidates, scores and the selection *)

\* the arguments of a call
Query(channel, title, start_ts, prefer_past) ==
    [kind |-> "call", channel |-> channel, title |-> title, start_ts |-> start_ts,
     prefer_past |-> prefer_past]

\* (ev.get('title') or '').strip().lower() and its punctuation-free form
EvTitle(ev) == TitleKey(ev.title)
EvTitleNorm(ev) == TitleNorm(EvTitle(ev))

\* candidates.append(ev) for each ev whose id() is not in seen; candidates are
\* positions in 'programmes'
RECURSIVE AddUnseen(_, _)
AddUnseen(candidates, evs) ==
    IF evs = << >> THEN candidates
    ELSE AddUnseen(IF \E i \in 1..Len(candidates) : candidates[i] = evs[1] THEN candidates
                   ELSE Append(candidates, evs[1]),
                   Tail(evs))

PAST_SCAN_MAX == 100
FALLBACK_SCAN_MAX == 10

\* lines 498-511: every programme whose normalized title equals or contains the
\* normalized query title, up to 100
RECURSIVE TitleScan(_, _, _, _)
TitleScan(programmes, i, title_key_norm, candidates) ==
    IF i > Len(programmes) \/ Len(candidates) >= PAST_SCAN_MAX THEN candidates
    ELSE LET ev_title_norm == EvTitleNorm(programmes[i])
         IN  TitleScan(programmes, i + 1, title_key_norm,
                       IF ev_title_norm = title_key_norm \/ Contains(ev_title_norm, title_key_norm)
                       THEN AddUnseen(candidates, <<i>>)
                       ELSE candidates)

\* line 514
START_DELTAS == <<0, -60, 60, -120, 120>>

\* lines 514-523: the by_start buckets at the five offsets
RECURSIVE StartScan(_, _, _, _)
StartScan(by_start, start_key, d, candidates) ==
    IF d > Len(START_DELTAS) THEN candidates
    ELSE StartScan(by_start, start_key, d + 1,
                   AddUnseen(candidates, BucketOf(by_start, start_key + START_DELTAS[d])))

\* lines 544-550: programmes whose title or normalized title equals the query's, up to 10
RECURSIVE FallbackScan(_, _, _, _, _)
FallbackScan(programmes, i, title_key, title_key_norm, candidates) ==
    IF i > Len(programmes) \/ Len(candidates) >= FALLBACK_SCAN_MAX THEN candidates
    ELSE FallbackScan(programmes, i + 1, title_key, title_key_norm,
                      IF EvTitle(programmes[i]) = title_key
                            \/ EvTitleNorm(programmes[i]) = title_key_norm
                      THEN Append(candidates, i)
                      ELSE candidates)

\* lines 553-557: the first programme on the query's channel
ChannelScan(programmes, chan_clean) ==
    LET on == {i \in 1..Len(programmes) :
                  /\ clean_channel_name(programmes[i].channel) # ""
                  /\ Lower(clean_channel_name(programmes[i].channel)) = Lower(chan_clean)}
    IN  IF on = {} THEN << >> ELSE <<CHOOSE i \in on : \A j \in on : i <= j>>

\* lines 495-523: the past scan by title, or else the by_start buckets
FirstScan(data, index, prefer_past, start_key, title_key_norm) ==
    IF prefer_past /\ title_key_norm # ""
    THEN TitleScan(data.programmes, 1, title_key_norm, << >>)
    ELSE IF ~start_key.none
    THEN StartScan(index.by_start, start_key.val, 1, << >>)
    ELSE << >>

\* the mutant of TitleBuckets: the buckets are read only when there is no
\* candidate yet
TitleBucketsIfNone(candidates, by_title, prefer_past, title_key, title_key_norm) ==
    IF title_key # "" /\ ~prefer_past /\ candidates = << >>
    THEN AddUnseen(AddUnseen(candidates, BucketOf(by_title, title_key)),
                   IF title_key_norm # "" /\ title_key_norm # title_key
                   THEN BucketOf(by_title, title_key_norm)
                   ELSE << >>)
    ELSE candidates

\* lines 525-541: the by_title buckets of the title and of its normalized form
TitleBuckets(candidates, by_title, prefer_past, title_key, title_key_norm) ==
    IF title_key # "" /\ ~prefer_past
    THEN AddUnseen(AddUnseen(candidates, BucketOf(by_title, title_key)),
                   IF title_key_norm # "" /\ title_key_norm # title_key
                   THEN BucketOf(by_title, title_key_norm)
                   ELSE << >>)
    ELSE candidates

\* lines 543-550: the scan of all programmes when nothing was found so far
OrFallbackScan(candidates, programmes, title_key, title_key_norm) ==
    IF candidates = << >> /\ title_key # ""
    THEN FallbackScan(programmes, 1, title_key, title_key_norm, << >>)
    ELSE candidates

\* lines 552-557: the channel's first programme when there is still nothing
OrChannelScan(candidates, programmes, chan_clean) ==
    IF candidates = << >> /\ chan_clean # "" THEN ChannelScan(programmes, chan_clean)
    ELSE candidates

\* lines 490-557 with the keys of lines 484-488 worked out
CandidatesFor(data, index, prefer_past, start_key, title_key, title_key_norm, chan_clean) ==
    OrChannelScan(
        OrFallbackScan(
            TitleBuckets(FirstScan(data, index, prefer_past, start_key, title_key_norm),
                         index.by_title, prefer_past, title_key, title_key_norm),
            data.programmes, title_key, title_key_norm),
        data.programmes, chan_clean)

\* line 487: title_key_norm of title_key
CandidatesOfTitle(data, index, q, title_key) ==
    CandidatesFor(data, index, q.prefer_past, normalize_start(q.start_ts), title_key,
                  TitleNorm(title_key), clean_channel_name(q.channel))

\* lines 484-557: the candidate list, in scan order
Candidates(data, index, q) == CandidatesOfTitle(data, index, q, TitleKey(q.title))

\* scores are kept as multiples of 1/28800 so that the distance bonus
\* 3 - (diff / 3600) / 8 stays a whole number
SCORE_SCALE == 28800

\* lines 567-577
TitleScoreSwapped(title_key, title_key_norm, ev_title, ev_title_norm) ==
    IF title_key # "" /\ ev_title # ""
    THEN IF ev_title_norm = title_key_norm THEN 3
         ELSE IF Contains(ev_title_norm, title_key_norm) \/ Contains(title_key_norm, ev_title_norm)
         THEN 4
         ELSE IF Contains(ev_title, title_key) THEN 6
         ELSE 0
    ELSE 0

TitleScore(title_key, title_key_norm, ev_title, ev_title_norm) ==
    IF title_key # "" /\ ev_title # ""
    THEN IF ev_title_norm = title_key_norm THEN 6
         ELSE IF Contains(ev_title_norm, title_key_norm) \/ Contains(title_key_norm, ev_title_norm)
         THEN 4
         ELSE IF Contains(ev_title, title_key) THEN 3
         ELSE 0
    ELSE 0

Abs(n) == IF n < 0 THEN -n ELSE n

\* lines 585-596
TimeScore(diff) ==
    IF diff = 0 THEN 20
    ELSE IF diff <= 60 THEN 10
    ELSE IF diff <= 180 THEN 5
    ELSE IF diff <= 600 THEN 2
    ELSE 0

\* lines 600-618, in units of 1/28800
PastScoreReversed(diff, time_offset) ==
    (IF diff <= 86400 THEN 86400 - diff ELSE 0)
    + (IF time_offset > 3600 THEN 5 * SCORE_SCALE
       ELSE IF time_offset < -3600 THEN -15 * SCORE_SCALE
       ELSE 0)

PastScore(diff, time_offset) ==
    (IF diff <= 86400 THEN 86400 - diff ELSE 0)
    + (IF time_offset < -3600 THEN 5 * SCORE_SCALE
       ELSE IF time_offset > 3600 THEN -15 * SCORE_SCALE
       ELSE 0)

\* lines 620-628
ChannelScore(chan_clean, ev_chan_clean) ==
    IF chan_clean # "" /\ ev_chan_clean # ""
    THEN IF Lower(ev_chan_clean) = Lower(chan_clean) THEN 4
         ELSE IF Contains(Lower(ev_chan_clean), Lower(chan_clean)) THEN 2
         ELSE 0
    ELSE 0

AnyIn(names, text) == \E n \in names : Contains(text, n)

\* lines 631-643
NetworkScore(ev_channel) ==
    IF AnyIn({"FOXNEWS", "FOX NEWS"}, ev_channel) THEN 5
    ELSE IF AnyIn({"NBC", "CBS", "ABC", "FOX"}, ev_channel) THEN 3
    ELSE IF AnyIn({"AMC", "TNT", "USA", "TBS", "BRAVO", "FX", "HULU"}, ev_channel) THEN 4
    ELSE IF AnyIn({"AFN", "MILITARY"}, ev_channel) THEN -10
    ELSE 0

\* lines 645-649: priority is None when it is absent or not an int
PriorityScore(priority) ==
    IF priority.none THEN 0
    ELSE IF priority.val < 0 THEN 0
    ELSE IF priority.val > 3 THEN 3
    ELSE priority.val

\* lines 563-649 with the keys worked out: the score in units of 1/28800
ScoreFor(ev, q, start_key, ev_start_key, title_key) ==
    LET timed == ~start_key.none /\ ~ev_start_key.none
        diff == Abs(ev_start_key.val - start_key.val)
    IN  SCORE_SCALE *
            ( TitleScore(title_key, TitleNorm(title_key), EvTitle(ev), EvTitleNorm(ev))
            + (IF timed THEN TimeScore(diff) ELSE 0)
            + ChannelScore(clean_channel_name(q.channel), clean_channel_name(ev.channel))
            + NetworkScore(Upper(ChannelText(ev.channel)))
            + PriorityScore(ev.priority) )
        + (IF timed /\ q.prefer_past THEN PastScore(diff, ev_start_key.val - start_key.val)
           ELSE 0)

\* lines 563-649: the score of one candidate
Score(ev, q) ==
    ScoreFor(ev, q, normalize_start(q.start_ts), normalize_start(ev.start), TitleKey(q.title))

\* best = None, best_score = -1, debug_scores = []
NoBest == [best |-> 0, best_score |-> -SCORE_SCALE, debug_scores |-> << >>]

\* lines 655-661: an equal score wins for a catch-up when the airing is earlier
Earlier(programmes, ev, score, prefer_past, st) ==
    /\ score = st.best_score
    /\ st.best # 0
    /\ prefer_past
    /\ ~normalize_start(ev.start).none
    /\ ~normalize_start(programmes[st.best].start).none
    /\ normalize_start(ev.start).val < normalize_start(programmes[st.best].start).val

\* lines 650-671: the state of the scan after a candidate with this score
Scanned(st, pos, score, should_update) ==
    [best |-> IF should_update THEN pos ELSE st.best,
     best_score |-> IF should_update THEN score ELSE st.best_score,
     debug_scores |-> Append(st.debug_scores, [pos |-> pos, score |-> score])]

\* lines 562-676: the scan of the candidates from the i-th on; it stops at the
\* first update that reaches 12 points
RECURSIVE Select(_, _, _, _, _)
RECURSIVE SelectScored(_, _, _, _, _, _)
RECURSIVE SelectUpdated(_, _, _, _, _, _, _)
Select(programmes, candidates, i, q, st) ==
    IF i > Len(candidates) THEN st
    ELSE SelectScored(programmes, candidates, i, q, st, Score(programmes[candidates[i]], q))

SelectScored(programmes, candidates, i, q, st, score) ==
    SelectUpdated(programmes, candidates, i, q, st, score,
                  \/ score > st.best_score
                  \/ Earlier(programmes, programmes[candidates[i]], score, q.prefer_past, st))

SelectUpdated(programmes, candidates, i, q, st, score, should_update) ==
    IF should_update /\ score >= 12 * SCORE_SCALE
    THEN Scanned(st, candidates[i], score, should_update)
    ELSE Select(programmes, candidates, i + 1, q, Scanned(st, candidates[i], score, should_update))

NoRecord == [kind |-> "none"]
Raised == [kind |-> "raised"]

\* lines 692-703: the record returned, dict(best) with the display names
Meta(ev, pos, display, scores) ==
    LET chan_key == ChannelText(ev.channel)
        found == IF DisplayGet(display, chan_key) # "" THEN DisplayGet(display, chan_key)
                 ELSE DisplayGet(display, clean_channel_name(ev.channel))
    IN  [kind |-> "found", pos |-> pos, title |-> ev.title, start |-> ev.start,
         channel |-> ev.channel, type |-> ev.type, year |-> ev.year, desc |-> ev.desc,
         channelName |-> IF chan_key # "" THEN found ELSE "",
         channelClean |-> IF chan_key # "" THEN clean_channel_name(ev.channel) ELSE "",
         debug_scores |-> scores]

\* lines 678-703: the best candidate, or the first one when none was taken
Returned(data, display, candidates, st) ==
    LET best == IF st.best # 0 THEN st.best
                ELSE IF candidates # << >> THEN candidates[1]
                ELSE 0
    IN  IF best = 0 THEN NoRecord
        ELSE Meta(data.programmes[best], best, display, st.debug_scores)

\* lines 559-703: the selection among the candidates
Chosen(data, display, q, candidates) ==
    Returned(data, display, candidates, Select(data.programmes, candidates, 1, q, NoBest))

\* cache_find_program after _ensure_epg_index returned (data, index)
cache_find_program(data, index, display, q) ==
    IF ~Truthy(data) THEN NoRecord
    ELSE Chosen(data, display, q, Candidates(data, index, q))

-----------------------------------------------------------------------------
(* The selection of the remote resolver: _coerce_event and _pick_best_from_list *)

\* an entry of a list that is not a dict
NotADict == [kind |-> "not_a_dict"]

\* _coerce_event: None for an entry that is not a dict, else the record with
\* the keys title, subtitle, desc, start, channel, type and year
coerce_event(ev) ==
    IF ev = NotADict THEN NoRecord
    ELSE [kind |-> "found", pos |-> 0, title |-> ev.title, start |-> ev.start,
          channel |-> ev.channel, type |-> ev.type, year |-> ev.year, desc |-> ev.desc,
          channelName |-> "", channelClean |-> "",
          debug_scores |-> << >>]

\* lines 435-439: titles are compared stripped and lowercased, punctuation kept
PickTitleScore(want, ev_title) ==
    IF want = "" THEN 0
    ELSE IF ev_title = want THEN 10
    ELSE IF Contains(ev_title, want) THEN 4
    ELSE 0

\* lines 444-450
PickTimeScore(diff) ==
    IF diff <= 60 THEN 8
    ELSE IF diff <= 300 THEN 5
    ELSE IF diff <= 900 THEN 3
    ELSE 0

\* lines 433-450: the score of one entry
PickScore(ev, want, want_start_key, ev_start_key) ==
    PickTitleScore(want, EvTitle(ev))
    + (IF ~want_start_key.none /\ ~ev_start_key.none
       THEN PickTimeScore(Abs(ev_start_key.val - want_start_key.val))
       ELSE 0)

\* lines 428-457: the scan from the i-th entry on; best is a position, 0 for None
RECURSIVE PickScan(_, _, _, _, _, _)
RECURSIVE PickScored(_, _, _, _, _, _, _)
PickScan(lst, i, want, want_start_key, best, best_score) ==
    IF i > Len(lst) THEN best
    ELSE IF lst[i] = NotADict THEN PickScan(lst, i + 1, want, want_start_key, best, best_score)
    ELSE PickScored(lst, i, want, want_start_key, best, best_score,
                    PickScore(lst[i], want, want_start_key, normalize_start(lst[i].start)))

PickScored(lst, i, want, want_start_key, best, best_score, score) ==
    IF score = 0 /\ best # 0 THEN PickScan(lst, i + 1, want, want_start_key, best, best_score)
    ELSE IF score > best_score THEN PickScan(lst, i + 1, want, want_start_key, i, score)
    ELSE PickScan(lst, i + 1, want, want_start_key, best, best_score)

\* lines 459-463: the first entry that is a dict, 0 when there is none
FirstDict(lst) ==
    LET at == {i \in 1..Len(lst) : lst[i] # NotADict}
    IN  IF at = {} THEN 0 ELSE CHOOSE i \in at : \A j \in at : i <= j

\* the position _pick_best_from_list takes its record from, 0 when it returns None
PickedAt(lst, best) == IF best = 0 /\ lst # << >> THEN FirstDict(lst) ELSE best

\* _pick_best_from_list(lst, want_title, want_start) as a position of lst
pick_best_from_list(lst, want_title, want_start) ==
    PickedAt(lst, PickScan(lst, 1, TitleKey(want_title), normalize_start(want_start), 0, -1))

\* what _pick_best_from_list returns
Picked(lst, at) == IF at = 0 THEN NoRecord ELSE coerce_event(lst[at])

-----------------------------------------------------------------------------
(* Loading the guide: _load_epg_cache and _ensure_epg_index, one action per
   stretch between two awaits *)

Readers == {"g1", "g2"}

NoStats == [epg_hits |-> 0, epg_misses |-> 0, https_probes |-> 0, memory_warnings |-> 0]

\* what a finished call has seen: the (data, index) pair _ensure_epg_index
\* returned and the channel-display table as cache_find_program read it
Seen(data, index, display) ==
    [kind |-> "returned", data |-> data, index |-> index, display |-> display]
NotSeen == [kind |-> "none", data |-> NoDoc, index |-> NoIndex, display |-> << >>]
SeenRaise == [kind |-> "raised", data |-> NoDoc, index |-> NoIndex, display |-> << >>]

\* a caller of cache_find_program: where it stands, the mtime it read, the
\* content it was given, what it saw, and how many calls and over-the-ceiling
\* builds it has made
IdleLookup ==
    [pc |-> "idle", mtime |-> NoMtime, content |-> NoDoc, seen |-> NotSeen, count |-> 0,
     over |-> 0]

\* the module state of lines 136-139
InitEpg ==
    /\ epg_cache_data = NoDoc
    /\ epg_cache_mtime = NoMtime
    /\ epg_index = NoIndex
    /\ epg_channel_display = << >>
    /\ cache_stats = NoStats
    /\ lookups = [g \in Readers |-> IdleLookup]

\* no guide file, nothing loaded yet
InitNoGuide ==
    /\ epg_file = MissingFile
    /\ changes = 0
    /\ epg_index_max_size = EPG_INDEX_MAX_SIZE_DEFAULT
    /\ InitEpg

\* an empty BoundedDict of the default capacity, no operation made on it
InitNoDict ==
    /\ bounded_dict = << >>
    /\ bd_max_size = HTTPS_CACHE_MAX_SIZE_DEFAULT
    /\ bd_prev = << >>
    /\ bd_uses = << >>

\* cache_find_program is not called directly
InitNoQuery ==
    /\ query = NoQuery
    /\ matched = NotCalled
    /\ hit_list = << >>
    /\ picked = NotCalled

\* no call of _probe_https_once is under way and none has been made
NoProbe == [pc |-> "idle", host |-> ""]
InitNoProbe ==
    /\ probe = NoProbe
    /\ probe_calls = << >>

\* the catalog is switched on and no search has been made
InitNoSearch ==
    /\ tmdb_on = TRUE
    /\ tmdb_calls = << >>

\* the components beside the request pipeline are at rest
\* the health watcher has not started
NoWatch == [bad_count |-> 0, last_warn_ts |-> 0, time |-> 0, fail_threshold |-> 0, warn_cooldown |-> 0]
InitNoWatch ==
    /\ watch = NoWatch
    /\ watch_log = << >>

\* no NotificationClient has been constructed
NoClient == [ws |-> "none", ws_connected |-> FALSE, reconnect_attempts |-> 0]
NoConn == [pc |-> "idle", delay |-> 0, slept |-> 0]
InitNoClient ==
    /\ client = NoClient
    /\ conn = NoConn
    /\ client_log = << >>
    /\ ws_calls = << >>

InitNoSide ==
    /\ InitNoProbe
    /\ InitNoSearch
    /\ InitNoWatch
    /\ InitNoClient

\* line 250: _epg_cache_data is None or mtime != _epg_cache_mtime
NeedsLoad(mtime) == epg_cache_data = NoDoc \/ mtime # epg_cache_mtime

\* the mutant of ReloadedIndex: a reload keeps the index of the old snapshot
ReloadedIndexKept(index) == index

\* line 253: _epg_index = None
ReloadedIndex(index) == NoIndex

\* lines 261-311 and the caller's reading of the result, entered with the data
\* _load_epg_cache returned and the module state as that call left it; count is
\* the number of calls the caller has then made
Ensure(g, data, index, display, count) ==
    IF index.built
    THEN /\ cache_stats' = [cache_stats EXCEPT !.epg_hits = @ + 1]
         /\ epg_index' = index
         /\ epg_channel_display' = display
         /\ lookups' = [lookups EXCEPT ![g].pc = "idle", ![g].count = count, ![g].seen = Seen(data, index, display)]
    ELSE LET b == IndexOf[data, epg_index_max_size] IN
         IF data.shape = "list"
         THEN /\ cache_stats' = [cache_stats EXCEPT !.epg_misses = @ + 1]
              /\ epg_index' = index
              /\ epg_channel_display' = display
              /\ lookups' = [lookups EXCEPT ![g].pc = "idle", ![g].count = count, ![g].seen = SeenRaise]
         ELSE IF data.channels_shape = "list"
         THEN /\ cache_stats' = [cache_stats EXCEPT
                                     !.epg_misses = @ + 1,
                                     !.memory_warnings = IF b.warned THEN @ + 1 ELSE @]
              /\ epg_index' = index
              /\ epg_channel_display' = display
              /\ lookups' = [lookups EXCEPT ![g].pc = "idle", ![g].count = count, ![g].seen = SeenRaise,
                                            ![g].over = IF b.warned THEN @ + 1 ELSE @]
         ELSE /\ cache_stats' = [cache_stats EXCEPT
                                     !.epg_misses = @ + 1,
                                     !.memory_warnings = IF b.warned THEN @ + 1 ELSE @]
              /\ epg_index' = b.index
              /\ epg_channel_display' = DisplayOf[data]
              /\ lookups' = [lookups EXCEPT
                                 ![g].pc = "idle",
                                 ![g].count = count,
                                 ![g].over = IF b.warned THEN @ + 1 ELSE @,
                                 ![g].seen = Seen(data, b.index, DisplayOf[data])]

\* cache_find_program is called: the file's mtime is read; with nothing to
\* load the whole call runs in this stretch, otherwise it awaits the file
CallLookup(g) ==
    /\ lookups[g].pc = "idle"
    /\ lookups[g].count < MaxLookups
    /\ IF NeedsLoad(epg_file.mtime)
       THEN /\ lookups' = [lookups EXCEPT ![g].pc = "reading", ![g].mtime = epg_file.mtime,
                                          ![g].seen = NotSeen, ![g].count = @ + 1]
            /\ UNCHANGED epgVars
       ELSE /\ Ensure(g, epg_cache_data, epg_index, epg_channel_display, lookups[g].count + 1)
            /\ UNCHANGED <<epg_cache_data, epg_cache_mtime>>
    /\ UNCHANGED <<epg_file, changes, epg_index_max_size, pipelineVars>>

\* aiofiles reads the file in a worker thread: the content is that of the file
\* at this moment
FileRead(g) ==
    /\ lookups[g].pc = "reading"
    /\ lookups' = [lookups EXCEPT ![g].pc = "loaded", ![g].content = LoadedData(epg_file)]
    /\ UNCHANGED <<epg_file, changes, epgVars, epg_index_max_size, pipelineVars>>

\* the await of line 251 is over: lines 251-254, then the rest of the call
LoadReturns(g) ==
    /\ lookups[g].pc = "loaded"
    /\ epg_cache_data' = lookups[g].content
    /\ epg_cache_mtime' = lookups[g].mtime
    /\ Ensure(g, lookups[g].content, ReloadedIndex(epg_index), << >>, lookups[g].count)
    /\ UNCHANGED <<epg_file, changes, epg_index_max_size, pipelineVars>>

-----------------------------------------------------------------------------
(* The /notify handler, one action per stretch between two awaits *)

NOTIFY_RETRY_ATTEMPTS == 3
NOTIFY_RETRY_DELAY == 2

RECURSIVE Pow2(_)
Pow2(n) == IF n = 0 THEN 1 ELSE 2 * Pow2(n - 1)

\* retry_delay * (2 ** attempt)
WaitTime(k) == NOTIFY_RETRY_DELAY * Pow2(k)

Finish(r, answer) ==
    /\ pc' = [pc EXCEPT ![r] = "done"]
    /\ response' = [response EXCEPT ![r] = answer]

\* the event loop is free: no handler is inside a blocking call
LoopFree == \A q \in Requests : pc[q] # "tmdb"

\* the request reaches the server; the handler awaits request.body()
Arrive(r, p) ==
    /\ pc[r] = "idle"
    /\ LoopFree
    /\ pc' = [pc EXCEPT ![r] = "body"]
    /\ payload' = [payload EXCEPT ![r] = p]
    /\ UNCHANGED <<clockVars, dedupVars, fixedVars, guideVars, trace, waits, attempt, meta,
                   used_api, composed, message, asked,
                   response>>

channel_hint(p) == Field(p).channel
channel_clean(p) == clean_channel_name(channel_hint(p))
HasChannelHint(p) == channel_hint(p).present /\ ChannelText(channel_hint(p)) # ""

\* start and not channel_hint and not channel_clean
CacheFirst(p) == Field(p).start # "" /\ ~HasChannelHint(p) /\ channel_clean(p) = ""

\* SNAPPY_API_ENABLED and (title or channel_hint or channel_clean)
ApiFirst(p) ==
    api_enabled /\ (Field(p).title # "" \/ HasChannelHint(p) \/ channel_clean(p) # "")

\* the first lookup of Resolve
FirstLookup(p) ==
    IF CacheFirst(p) THEN "cache_first"
    ELSE IF ApiFirst(p) THEN "api"
    ELSE "cache"

\* the mutant of AfterDedup: a duplicate is answered but not stopped
AfterDedupGoesOn(p, is_duplicate) == FirstLookup(p)

\* if is_duplicate: return JSONResponse(...); otherwise Resolve begins
AfterDedup(p, is_duplicate) == IF is_duplicate THEN "done" ELSE FirstLookup(p)

\* parsing, validation, the dedup check and the choice of the first lookup
Validate(r) ==
    LET p == payload[r]
        action == ActionOf(p)
        key == DedupKey(JoinWords(action), Field(p).job_id, Field(p).file)
        res == CheckAndRecord(notification_cache, key, now)
    IN
    /\ pc[r] = "body"
    /\ LoopFree
    /\ IF RaisesBeforeValidation(p)
       THEN /\ Finish(r, Unhandled)
            /\ UNCHANGED <<dedupVars, trace>>
       ELSE IF action = << >>
       THEN /\ Finish(r, MissingAction)
            /\ UNCHANGED <<dedupVars, trace>>
       ELSE /\ DoCheckAndRecord(key)
            /\ pc' = [pc EXCEPT ![r] = AfterDedup(p, res.dup)]
            /\ trace' = [trace EXCEPT ![r] =
                             Append(@, IF res.dup THEN "duplicate" ELSE "record")]
            /\ response' = [response EXCEPT ![r] =
                                IF res.dup THEN Deduplicated(action, res.elapsed) ELSE @]
    /\ UNCHANGED <<clockVars, fixedVars, guideVars, payload, waits, attempt, meta, used_api,
                   composed, message, asked>>

\* the catalog lookup was not made; it is under way; it returned None; it raised
TmdbSkipped == [kind |-> "skipped"]
TmdbRequest == [kind |-> "request"]
NoTmdb == [kind |-> "nothing"]
TmdbRaised == [kind |-> "raised"]

\* the metadata search_tmdb_movie and search_tmdb_tv return: 'overview', the
\* 'release_date' of a movie or the 'first_air_date' of a series, and 'genres'
TmdbMeta(overview, date, genres) ==
    [kind |-> "meta", overview |-> overview, date |-> date, genres |-> genres]

\* the metadata the lookups are answered with
TmdbMetas ==
    { TmdbMeta("A late-night panel.", "2015-04-01", <<"Comedy", "Talk", "News", "Drama">>),
      TmdbMeta("A late-night panel.", "", <<"Comedy">>),
      TmdbMeta("", "2015-04-01", << >>),
      TmdbMeta("", "", << >>) }

\* what the catalog lookup of a movie_ or series_ action can come to
TmdbOutcomes(action) ==
    IF StartsWith(action, "movie") \/ StartsWith(action, "series")
    THEN {NoTmdb, TmdbRaised} \cup TmdbMetas
    ELSE {TmdbSkipped}

\* action.endswith("_exit") and (exit_code is None or exit_code == 0)
ZeroExit(p) ==
    /\ EndsWith(ActionOf(p), "exit")
    /\ (as_int(Field(p).exit_code).none \/ as_int(Field(p).exit_code).val = 0)

\* how the catalog lookup of lines 980-1019 begins: not made for other actions;
\* settled without an outbound call (lookup disabled, no API key, no title, or
\* the answer is in _tmdb_cache); or requests.get() is called
TmdbStarts(action) ==
    IF StartsWith(action, "movie") \/ StartsWith(action, "series")
    THEN {TmdbRequest, NoTmdb, TmdbRaised} \cup TmdbMetas
    ELSE {TmdbSkipped}

\* re.sub(r' s\b', "'s", title, flags=re.IGNORECASE)
RECURSIVE FixApostrophe(_)
FixApostrophe(t) ==
    IF Len(t) < 2 THEN t
    ELSE IF SubSeq(t, 1, 2) \in {" s", " S"} /\ (Len(t) = 2 \/ ~IsWord(CharAt(t, 3)))
    THEN "'s" \o FixApostrophe(SubSeq(t, 3, Len(t)))
    ELSE CharAt(t, 1) \o FixApostrophe(SubSeq(t, 2, Len(t)))

\* action.startswith('catchup_')
IsCatchup(p) == StartsWith(ActionOf(p), "catchup")

\* lines 847 and 888-889: the title the lookups are made with
LookupTitle(p) ==
    IF IsCatchup(p) /\ Field(p).title # "" THEN FixApostrophe(Field(p).title)
    ELSE Field(p).title

\* local_dt.strftime("%Y-%m-%d %I:%M %p %Z") of a timestamp
LocalTime(ts) == "local time of " \o ts

\* lines 923-927: a catch-up takes the start of the guide's record when it differs
StartOverridden(p, record) ==
    /\ IsCatchup(p)
    /\ record.kind = "found"
    /\ record.start # ""
    /\ record.start # Field(p).start

\* _pick_channel_name over the payload's channel, the record's channelName and
\* channel, channel_hint and channel_clean
PickChannelName(p, record) ==
    IF channel_clean(p) # "" THEN channel_clean(p)
    ELSE IF record.kind # "found" THEN ""
    ELSE IF clean_channel_name(Chan("", "", record.channelName)) # ""
    THEN clean_channel_name(Chan("", "", record.channelName))
    ELSE clean_channel_name(record.channel)

NoFields ==
    [program_name |-> "", job_id |-> "", channel_name |-> "", start |-> "", start_local |-> "",
     kind |-> "", year |-> "", desc_raw |-> "", tmdb |-> TmdbSkipped]

\* (payload or {}).get(name) or (meta or {}).get(name)
PayloadOrMeta(p, record, name) ==
    IF Field(p)[name] # "" THEN Field(p)[name]
    ELSE IF record.kind = "found" THEN record[name]
    ELSE ""

\* lines 923-965: what the body is written from; the payload carries no
\* start_local of its own
Fields(p, record) ==
    [program_name |->
        IF LookupTitle(p) # "" THEN LookupTitle(p)
        ELSE IF record.kind = "found" /\ record.title # "" THEN record.title
        ELSE "Unknown",
     job_id |-> IF Field(p).job_id # "" THEN Field(p).job_id ELSE "Unknown",
     channel_name |->
        IF PickChannelName(p, record) # "" THEN PickChannelName(p, record) ELSE "Unknown",
     start |-> IF StartOverridden(p, record) THEN record.start ELSE Field(p).start,
     start_local |->
        IF StartOverridden(p, record) /\ ~normalize_start(record.start).none
        THEN LocalTime(record.start)
        ELSE "",
     kind |-> PayloadOrMeta(p, record, "type"),
     year |-> PayloadOrMeta(p, record, "year"),
     desc_raw |-> PayloadOrMeta(p, record, "desc"),
     tmdb |-> TmdbSkipped]

\* date[:4]
FirstFour(date) == IF Len(date) <= 4 THEN date ELSE SubSeq(date, 1, 4)

\* ', '.join(genres[:3])
RECURSIVE JoinGenres(_, _)
JoinGenres(genres, n) ==
    IF n = 0 \/ genres = << >> THEN ""
    ELSE IF n = 1 \/ Len(genres) = 1 THEN genres[1]
    ELSE genres[1] \o ", " \o JoinGenres(Tail(genres), n - 1)

\* the mutant of Enrich: the catalog's year replaces the one already set
EnrichReplacingYear(c, t) ==
    IF t.kind # "meta" THEN [c EXCEPT !.tmdb = t]
    ELSE [c EXCEPT !.tmdb = t,
                   !.desc_raw = IF t.overview # "" THEN t.overview ELSE @,
                   !.year = IF t.date # "" THEN FirstFour(t.date) ELSE @,
                   !.kind = IF @ = "" THEN JoinGenres(t.genres, 3) ELSE @]

\* lines 982-1019: what the catalog's answer changes of kind, year and desc_raw;
\* nothing when the lookup returned None or raised
Enrich(c, t) ==
    IF t.kind # "meta" THEN [c EXCEPT !.tmdb = t]
    ELSE [c EXCEPT !.tmdb = t,
                   !.desc_raw = IF t.overview # "" THEN t.overview ELSE @,
                   !.year = IF @ = "" /\ t.date # "" THEN FirstFour(t.date) ELSE @,
                   !.kind = IF @ = "" THEN JoinGenres(t.genres, 3) ELSE @]

Line(tag, text) == [tag |-> tag, text |-> text]

\* lines 1127-1134
AiredLines(p, c) ==
    IF IsCatchup(p) \/ StartsWith(ActionOf(p), "series")
    THEN IF c.start_local # "" THEN <<Line("aired", c.start_local)>>
         ELSE IF c.start # "" THEN <<Line("aired", c.start)>>
         ELSE << >>
    ELSE << >>

\* lines 1053-1134: the lines of the body that name the programme, the job, the
\* channel and the airing; a health warning carries none of them
MessageBody(p, c) ==
    IF ActionOf(p) = <<"health", "warn">>
    THEN <<Line("text", "Server health check failed")>>
    ELSE <<Line("programme", c.program_name), Line("job", c.job_id)>>
         \o (IF ~StartsWith(ActionOf(p), "movie") /\ ~StartsWith(ActionOf(p), "series")
                /\ c.channel_name # "Unknown"
             THEN <<Line("channel", c.channel_name)>>
             ELSE << >>)
         \o AiredLines(p, c)

\* lines 1039-1187: suppression, the body, and the call of pushover_send up to
\* its first POST
Deliver(r, tr) ==
    LET p == payload[r]
        action == ActionOf(p)
    IN
    IF ZeroExit(p)
    THEN /\ Finish(r, Suppressed(action))
         /\ trace' = [trace EXCEPT ![r] = tr]
         /\ UNCHANGED <<attempt, message>>
    ELSE IF ~po_configured
    THEN /\ Finish(r, Result(action, PushNotConfigured, meta'[r] # NoRecord, used_api'[r]))
         /\ trace' = [trace EXCEPT ![r] = Append(tr, "send")]
         /\ message' = [message EXCEPT ![r] = MessageBody(p, composed'[r])]
         /\ UNCHANGED attempt
    ELSE /\ pc' = [pc EXCEPT ![r] = "post"]
         /\ attempt' = [attempt EXCEPT ![r] = 0]
         /\ trace' = [trace EXCEPT ![r] = Append(tr, "send")]
         /\ message' = [message EXCEPT ![r] = MessageBody(p, composed'[r])]
         /\ UNCHANGED response

\* lines 918-1187, entered when Resolve is over; found says where the record
\* came from. The catalog lookup is a plain call of requests.get(): the event
\* loop stays in it until it returns
Compose(r, found, record, tr) ==
    /\ meta' = [meta EXCEPT ![r] = record]
    /\ used_api' = [used_api EXCEPT ![r] = (found = "api")]
    /\ \E t \in TmdbStarts(ActionOf(payload[r])) :
        CASE t = TmdbSkipped ->
                /\ composed' = [composed EXCEPT ![r] = Fields(payload[r], record)]
                /\ Deliver(r, tr)
          [] t = TmdbRequest ->
                /\ composed' = [composed EXCEPT ![r] = Fields(payload[r], record)]
                /\ pc' = [pc EXCEPT ![r] = "tmdb"]
                /\ trace' = [trace EXCEPT ![r] = Append(tr, "tmdb")]
                /\ UNCHANGED <<attempt, response, message>>
          [] OTHER ->
                /\ composed' = [composed EXCEPT ![r] = Enrich(Fields(payload[r], record), t)]
                /\ Deliver(r, Append(tr, "tmdb"))

\* requests.get() returns or raises (caught at lines 998 and 1018); the handler
\* goes on within the same stretch
TmdbReturns(r) ==
    /\ pc[r] = "tmdb"
    /\ UNCHANGED <<clockVars, dedupVars, fixedVars, guideVars, payload, waits, meta, used_api,
                   asked>>
    /\ \E t \in TmdbOutcomes(ActionOf(payload[r])) :
        /\ composed' = [composed EXCEPT ![r] = Enrich(@, t)]
        /\ Deliver(r, trace[r])

\* the mutant of FirstQuery: prefer_past is never set
FirstQueryNeverPast(p) == Query(NoChannel, LookupTitle(p), Field(p).start, FALSE)

\* lines 902 and 905: cache_find_program(None, title, start, prefer_past=is_catchup)
FirstQuery(p) == Query(NoChannel, LookupTitle(p), Field(p).start, IsCatchup(p))

\* line 916: cache_find_program(channel_hint or channel_clean, title, start, prefer_past=is_catchup)
FallbackQuery(p) ==
    Query(IF HasChannelHint(p) THEN channel_hint(p) ELSE NoChannel,
          LookupTitle(p), Field(p).start, IsCatchup(p))

\* the guide the pipeline is run with: its title lacks the punctuation of the
\* payloads' title, and another programme, which carries a year and a
\* description, shares its start
GutfeldPlain == Prog("Gutfeld", Start1, FoxNews, NoneInt)
TheFiveDescribed == Described(TheFive, "", "2021", "A panel of five.")
GuideListing == Doc("object", <<TheFiveDescribed, GutfeldPlain>>, "dict", <<FoxEntry>>)

\* the file at EPG_CACHE for each kind of guide
GuideFileOf(kind) ==
    CASE kind = "ok" -> File("json", 0, GuideListing)
      [] kind = "wrong_shape" -> File("json", 0, ListDoc)
      [] kind = "invalid_json" -> File("invalid_json", 0, NoDoc)
      [] OTHER -> MissingFile

PipelineDocs == {GuideListing, ListDoc, EmptyDoc}
PipelineQueries ==
    {FirstQuery(p) : p \in BodiesOne \cup BodiesMany}
        \cup {FallbackQuery(p) : p \in BodiesOne \cup BodiesMany}

\* what _ensure_epg_index builds of each guide and what cache_find_program
\* returns for each query, computed once
PipelineIndexOf == [doc \in PipelineDocs |-> BuildIndex(doc, EPG_INDEX_MAX_SIZE_DEFAULT)]
PipelineDisplayOf == [doc \in PipelineDocs |-> BuildDisplay(doc.channels, << >>)]
FoundOf ==
    [doc \in PipelineDocs, q \in PipelineQueries |->
        IF BuildRaises(doc) THEN Raised
        ELSE cache_find_program(doc, PipelineIndexOf[doc].index, PipelineDisplayOf[doc], q)]

\* _ensure_epg_index as a handler runs it while the guide file stays as it is:
\* the file is loaded when its mtime is new, the index is built when there is none
EnsureIndex ==
    LET reload == NeedsLoad(epg_file.mtime)
        data == IF reload THEN LoadedData(epg_file) ELSE epg_cache_data
        index == IF reload THEN ReloadedIndex(epg_index) ELSE epg_index
        display == IF reload THEN << >> ELSE epg_channel_display
    IN
    /\ epg_cache_data' = data
    /\ epg_cache_mtime' = epg_file.mtime
    /\ IF index.built
       THEN /\ epg_index' = index
            /\ epg_channel_display' = display
            /\ cache_stats' = [cache_stats EXCEPT !.epg_hits = @ + 1]
       ELSE IF BuildRaises(data)
       THEN /\ epg_index' = index
            /\ epg_channel_display' = display
            /\ cache_stats' = [cache_stats EXCEPT !.epg_misses = @ + 1]
       ELSE /\ epg_index' = PipelineIndexOf[data].index
            /\ epg_channel_display' = PipelineDisplayOf[data]
            /\ cache_stats' = [cache_stats EXCEPT !.epg_misses = @ + 1]
    /\ UNCHANGED <<epg_file, changes, epg_index_max_size, lookups>>

\* what cache_find_program returns to a handler for query q
CacheResult(q) == FoundOf[LoadedData(epg_file), q]

\* how one request to the remote search can end
ApiReplies ==
    {"timeout", "network", "status", "not_json", "not_list", "empty", "no_dicts", "hits"}

\* the replies that carry no usable list
ApiFailures == ApiReplies \ {"no_dicts", "hits"}

\* the list the remote search holds for a search made with these fields; the
\* lists of the three kinds of search share no record
HitsFor(title, channel) ==
    IF title # "" /\ channel # ""
    THEN <<Prog("The Five", Start1, FoxNews, NoneInt),
           Prog("Gutfeld!", "20240101120030+0000", FoxNews, NoneInt)>>
    ELSE IF title # "" THEN <<Prog("Gutfeld!", Start1, Chan("", "", "CNN"), NoneInt)>>
    ELSE <<Prog("Hannity", Start1, FoxNews, NoneInt)>>

\* the body of a reply that is a non-empty list
ListOf(reply, title, channel) ==
    IF reply = "hits" THEN HitsFor(title, channel) ELSE <<NotADict, NotADict>>

\* the mutant of api_search: a body that is not a list is taken for hits
ApiSearchAnyBody(reply, title, channel) ==
    IF ~api_enabled THEN << >>
    ELSE IF reply \in {"hits", "no_dicts"} THEN ListOf(reply, title, channel)
    ELSE IF reply = "not_list" THEN HitsFor(title, channel)
    ELSE << >>

\* api_search: the list of hits; None, here the empty list, for a disabled
\* search, an exception, a non-success status, or a body that is not a
\* non-empty list
api_search(reply, title, channel) ==
    IF ~api_enabled THEN << >>
    ELSE IF reply \in {"hits", "no_dicts"} THEN ListOf(reply, title, channel)
    ELSE << >>

\* a call of a resolver as a request makes it: the function, its channel,
\* title and start arguments, prefer_past, and for a search the reply it got
Call(fn, channel, title, start, prefer_past, reply) ==
    [fn |-> fn, channel |-> channel, title |-> title, start |-> start,
     prefer_past |-> prefer_past, reply |-> reply]

CacheCall(q) ==
    Call("cache_find_program", ChannelText(q.channel), q.title, q.start_ts, q.prefer_past, "")
ApiCall(channel, title, start) == Call("api_find_program", channel, title, start, FALSE, "")
SearchCall(channel, title, reply) == Call("api_search", channel, title, "", FALSE, reply)

\* the mutant of Searches: the search by channel is made before the one by title
SearchesChannelFirst(channel, title) ==
    (IF title # "" /\ channel # ""
     THEN <<[title |-> title, channel |-> channel]>> ELSE << >>)
    \o (IF channel # "" THEN <<[title |-> "", channel |-> channel]>> ELSE << >>)
    \o (IF title # "" THEN <<[title |-> title, channel |-> ""]>> ELSE << >>)

\* the searches api_find_program makes, in order (lines 468-476): the title
\* and channel each is made with
Searches(channel, title) ==
    (IF title # "" /\ channel # ""
     THEN <<[title |-> title, channel |-> channel]>> ELSE << >>)
    \o (IF title # "" THEN <<[title |-> title, channel |-> ""]>> ELSE << >>)
    \o (IF channel # "" THEN <<[title |-> "", channel |-> channel]>> ELSE << >>)

\* api_find_program(channel, title, start) with the i-th search answered by
\* replies[i]: the record, what each search made came to, and the searches
\* made. The first search with hits ends it (lines 470, 473, 476); the record
\* is picked with the title that search was made with
RECURSIVE ApiSteps(_, _, _, _, _)
RECURSIVE ApiStep(_, _, _, _, _, _, _)
ApiSteps(searches, start, replies, log, sent) ==
    IF searches = << >> THEN [record |-> NoRecord, log |-> log, sent |-> sent]
    ELSE ApiStep(searches, start, replies, log, sent,
                 IF api_enabled THEN replies[Len(log) + 1] ELSE "disabled",
                 searches[1])

ApiStep(searches, start, replies, log, sent, reply, s) ==
    IF api_search(reply, s.title, s.channel) = << >>
    THEN ApiSteps(Tail(searches), start, replies, Append(log, "search_" \o reply),
                  Append(sent, SearchCall(s.channel, s.title, reply)))
    ELSE [record |-> Picked(api_search(reply, s.title, s.channel),
                            pick_best_from_list(api_search(reply, s.title, s.channel),
                                                s.title, start)),
          log |-> Append(log, "search_" \o reply),
          sent |-> Append(sent, SearchCall(s.channel, s.title, reply))]

api_find_program(channel, title, start, replies) ==
    ApiSteps(Searches(channel, title), start, replies, << >>, << >>)

\* cache_find_program(None, title, start, prefer_past=is_catchup) returns
CacheFirstReturns(r) ==
    LET tr == Append(trace[r], "cache")
        out == CacheResult(FirstQuery(payload[r]))
    IN
    /\ pc[r] = "cache_first"
    /\ LoopFree
    /\ EnsureIndex
    /\ asked' = [asked EXCEPT ![r] = Append(@, CacheCall(FirstQuery(payload[r])))]
    /\ CASE out = Raised ->
                /\ Finish(r, Unhandled)
                /\ trace' = [trace EXCEPT ![r] = tr]
                /\ UNCHANGED <<attempt, meta, used_api, composed, message>>
         [] out = NoRecord ->
                /\ pc' = [pc EXCEPT ![r] = "cache"]
                /\ trace' = [trace EXCEPT ![r] = tr]
                /\ UNCHANGED <<attempt, meta, used_api, composed, message, response>>
         [] OTHER -> Compose(r, "cache", out, tr)
    /\ UNCHANGED <<clockVars, dedupVars, fixedVars, payload, waits>>

\* the mutant of RetryClean: every cleaned channel is tried again
RetryCleanAlways(p) == channel_clean(p) # ""

\* line 909, after a miss: channel_clean and channel_clean != channel_hint
RetryClean(p) == channel_clean(p) # "" /\ channel_clean(p) # ChannelText(channel_hint(p))

\* api_find_program(channel=channel_hint, ...) returns; a miss is retried with
\* the cleaned channel when that one differs
ApiReturns(r, replies) ==
    LET p == payload[r]
        res == api_find_program(ChannelText(channel_hint(p)), LookupTitle(p), Field(p).start,
                                replies)
        tr == Append(trace[r], "api") \o res.log
    IN
    /\ pc[r] = "api"
    /\ LoopFree
    /\ asked' = [asked EXCEPT ![r] =
                    Append(@, ApiCall(ChannelText(channel_hint(p)), LookupTitle(p),
                                      Field(p).start)) \o res.sent]
    /\ IF res.record # NoRecord
       THEN Compose(r, "api", res.record, tr)
       ELSE /\ pc' = [pc EXCEPT ![r] =
                        IF RetryClean(p) THEN "api_clean" ELSE "cache"]
            /\ trace' = [trace EXCEPT ![r] = tr]
            /\ UNCHANGED <<attempt, meta, used_api, composed, message, response>>
    /\ UNCHANGED <<clockVars, dedupVars, fixedVars, guideVars, payload, waits>>

\* api_find_program(channel=channel_clean, ...) returns
ApiCleanReturns(r, replies) ==
    LET p == payload[r]
        res == api_find_program(channel_clean(p), LookupTitle(p), Field(p).start, replies)
        tr == Append(trace[r], "api") \o res.log
    IN
    /\ pc[r] = "api_clean"
    /\ LoopFree
    /\ asked' = [asked EXCEPT ![r] =
                    Append(@, ApiCall(channel_clean(p), LookupTitle(p), Field(p).start))
                        \o res.sent]
    /\ IF res.record # NoRecord
       THEN Compose(r, "api", res.record, tr)
       ELSE /\ pc' = [pc EXCEPT ![r] = "cache"]
            /\ trace' = [trace EXCEPT ![r] = tr]
            /\ UNCHANGED <<attempt, meta, used_api, composed, message, response>>
    /\ UNCHANGED <<clockVars, dedupVars, fixedVars, guideVars, payload, waits>>

\* the fallback cache_find_program(channel_hint or channel_clean, ...) returns
CacheReturns(r) ==
    LET tr == Append(trace[r], "cache")
        out == CacheResult(FallbackQuery(payload[r]))
    IN
    /\ pc[r] = "cache"
    /\ LoopFree
    /\ EnsureIndex
    /\ asked' = [asked EXCEPT ![r] = Append(@, CacheCall(FallbackQuery(payload[r])))]
    /\ IF out = Raised
       THEN /\ Finish(r, Unhandled)
            /\ trace' = [trace EXCEPT ![r] = tr]
            /\ UNCHANGED <<attempt, meta, used_api, composed, message>>
       ELSE Compose(r, IF out = NoRecord THEN "none" ELSE "cache", out, tr)
    /\ UNCHANGED <<clockVars, dedupVars, fixedVars, payload, waits>>

-----------------------------------------------------------------------------
(* pushover_send *)

\* what one POST to the push transport can come to
PostOutcomes ==
    {"accepted", "rejected", "bad_body", "http_error", "http_other", "timeout", "transport"}

\* what pushover_send returns when its last attempt came to out
LastResult(out) ==
    CASE out = "rejected" -> PushReplyRejected
      [] out = "http_error" -> PushHttpError
      [] out = "http_other" -> PushHttpOther
      [] out = "timeout" -> PushTimeout
      [] OTHER -> PushTransport

\* the mutant of MayRetry: one attempt too many
MayRetryOnceMore(k) == k < NOTIFY_RETRY_ATTEMPTS

\* attempt < max_retries - 1
MayRetry(k) == k < NOTIFY_RETRY_ATTEMPTS - 1

\* one POST of the delivery loop returns or raises
Post(r, out) ==
    LET action == ActionOf(payload[r])
        done(res) == Finish(r, Result(action, res, meta[r] # NoRecord, used_api[r]))
    IN
    /\ pc[r] = "post"
    /\ LoopFree
    /\ trace' = [trace EXCEPT ![r] = Append(@, "post")]
    /\ IF out = "accepted"
       THEN /\ done(PushReplyAccepted)
            /\ UNCHANGED waits
       ELSE IF MayRetry(attempt[r])
       THEN /\ pc' = [pc EXCEPT ![r] = "sleep"]
            /\ waits' = [waits EXCEPT ![r] = Append(@, WaitTime(attempt[r]))]
            /\ UNCHANGED response
       ELSE IF out = "bad_body"
       THEN /\ Finish(r, Unhandled)
            /\ UNCHANGED waits
       ELSE /\ done(LastResult(out))
            /\ UNCHANGED waits
    /\ UNCHANGED <<clockVars, dedupVars, fixedVars, guideVars, payload, attempt, meta, used_api,
                   composed, message, asked>>

\* asyncio.sleep(wait_time) is over: the loop goes to its next attempt
Wake(r) ==
    /\ pc[r] = "sleep"
    /\ LoopFree
    /\ pc' = [pc EXCEPT ![r] = "post"]
    /\ attempt' = [attempt EXCEPT ![r] = @ + 1]
    /\ UNCHANGED <<clockVars, dedupVars, fixedVars, guideVars, payload, trace, waits, meta,
                   used_api, composed, message, asked,
                   response>>

-----------------------------------------------------------------------------
(* Specifications of the request pipeline *)

InitRequests ==
    /\ pc = [r \in Requests |-> "idle"]
    /\ payload = [r \in Requests |-> NoBody]
    /\ trace = [r \in Requests |-> << >>]
    /\ waits = [r \in Requests |-> << >>]
    /\ attempt = [r \in Requests |-> 0]
    /\ meta = [r \in Requests |-> NoRecord]
    /\ used_api = [r \in Requests |-> FALSE]
    /\ composed = [r \in Requests |-> NoFields]
    /\ message = [r \in Requests |-> << >>]
    /\ asked = [r \in Requests |-> << >>]
    /\ response = [r \in Requests |-> NoResponse]

InitProcess ==
    /\ now = 0
    /\ ticks = 0
    /\ notification_cache = << >>
    /\ prev_cache = << >>
    /\ calls = << >>
    /\ InitRequests
    /\ changes = 0
    /\ epg_index_max_size = EPG_INDEX_MAX_SIZE_DEFAULT
    /\ InitEpg
    /\ InitNoDict
    /\ InitNoSide
    /\ InitNoQuery

\* the replies of the remote search to the (up to three) searches of one call
AllReply(reply) == [i \in 1..3 |-> reply]
ReplySeqs ==
    {AllReply(reply) : reply \in ApiReplies}
        \cup {<<"timeout", "hits", "hits">>, <<"empty", "status", "hits">>,
              <<"network", "no_dicts", "hits">>, <<"network", "status", "not_json">>}

InitOne ==
    /\ InitProcess
    /\ po_configured \in BOOLEAN
    /\ api_enabled \in BOOLEAN
    /\ guide \in {"missing", "invalid_json", "wrong_shape", "ok"}
    /\ epg_file = GuideFileOf(guide)

\* one request, every body, every environment
NextOne ==
    \/ \E p \in BodiesOne : Arrive("r1", p)
    \/ Validate("r1")
    \/ CacheFirstReturns("r1")
    \/ \E replies \in ReplySeqs : ApiReturns("r1", replies)
    \/ \E replies \in ReplySeqs : ApiCleanReturns("r1", replies)
    \/ CacheReturns("r1")
    \/ TmdbReturns("r1")
    \/ \E out \in PostOutcomes : Post("r1", out)
    \/ Wake("r1")

SpecOne == InitOne /\ [][NextOne]_vars

Init ==
    /\ InitProcess
    /\ po_configured = TRUE
    /\ api_enabled = TRUE
    /\ guide = "ok"
    /\ epg_file = GuideFileOf(guide)

\* the clock is read by the dedup check alone: it advances while a request has
\* still to make that check
BeforeDedup == \E r \in Requests : pc[r] \in {"idle", "body"}

\* the steps the handler of request r can take
Handle(r) ==
    \/ \E p \in BodiesMany : Arrive(r, p)
    \/ Validate(r)
    \/ CacheFirstReturns(r)
    \/ \E replies \in {AllReply("timeout"), AllReply("hits")} : ApiReturns(r, replies)
    \/ \E replies \in {AllReply("timeout"), AllReply("hits")} : ApiCleanReturns(r, replies)
    \/ CacheReturns(r)
    \/ TmdbReturns(r)
    \/ \E out \in {"accepted", "timeout"} : Post(r, out)
    \/ Wake(r)

Next ==
    \/ (BeforeDedup /\ Tick)
    \/ \E r \in Requests : Handle(r)

Spec == Init /\ [][Next]_vars

-----------------------------------------------------------------------------
(* Direct calls of the deduplicator *)

EventA == <<"recording_started", "j1", "/x/a.ts">>
EventB == <<"recording_started", "j2", "/x/b.ts">>
EventC == <<"catchup_completed", "j1", "/x/a.ts">>
Events == {EventA, EventB, EventC}

KeyOf(ev) == DedupKey(ev[1], ev[2], ev[3])

\* n earlier notifications of distinct other events, all recorded at time 0
Fillers(n) == [i \in 1..n |-> [key |-> DedupKey("filler", ToString(i), ""), at |-> 0]]

\* the calls that built the third start: event A first, the last filler last
SeedCallA ==
    [key |-> KeyOf(EventA), at |-> 0, dup |-> FALSE, elapsed |-> 0, held |-> FALSE,
     seed |-> TRUE]
SeedCallFiller(n) ==
    [key |-> DedupKey("filler", ToString(n), ""), at |-> 0, dup |-> FALSE, elapsed |-> 0,
     held |-> FALSE, seed |-> TRUE]

EntryA == [key |-> KeyOf(EventA), at |-> 0]

\* mappings the process can hold when the observed calls begin: empty, one
\* short of the cap, and at the cap with event A as its oldest entry
DedupStarts ==
    { [cache |-> << >>, prev |-> << >>, calls |-> << >>],
      [cache |-> Fillers(NOTIFICATION_CACHE_MAX - 1),
       prev |-> Fillers(NOTIFICATION_CACHE_MAX - 2),
       calls |-> <<SeedCallFiller(NOTIFICATION_CACHE_MAX - 1)>>],
      [cache |-> <<EntryA>> \o Fillers(NOTIFICATION_CACHE_MAX - 1),
       prev |-> <<EntryA>> \o Fillers(NOTIFICATION_CACHE_MAX - 2),
       calls |-> <<SeedCallA, SeedCallFiller(NOTIFICATION_CACHE_MAX - 1)>>] }

InitDedup ==
    /\ now = 0
    /\ ticks = 0
    /\ po_configured = TRUE
    /\ api_enabled = TRUE
    /\ guide = "ok"
    /\ InitRequests
    /\ InitNoGuide
    /\ InitNoDict
    /\ InitNoSide
    /\ InitNoQuery
    /\ \E s \in DedupStarts :
        /\ notification_cache = s.cache
        /\ prev_cache = s.prev
        /\ calls = s.calls

Observed == {i \in 1..Len(calls) : ~calls[i].seed}

CallCheckAndRecord ==
    /\ Cardinality(Observed) < MaxCalls
    /\ \E ev \in Events : DoCheckAndRecord(KeyOf(ev))
    /\ UNCHANGED <<clockVars, fixedVars, guideVars, reqVars>>

NextDedup == Tick \/ CallCheckAndRecord

SpecDedup == InitDedup /\ [][NextDedup]_vars

-----------------------------------------------------------------------------
(* Properties of the deduplicator *)

SameKeyFresh(i) == {j \in 1..(i - 1) : calls[j].key = calls[i].key /\ ~calls[j].dup}

MaxOf(S) == CHOOSE x \in S : \A y \in S : y <= x

\* the time of the latest not-duplicate call of call i's key before call i
LastFreshAt(i) == calls[MaxOf(SameKeyFresh(i))].at

\* C1: dedup idempotence. The first call for a key is not a duplicate; a later
\* call for the same key made less than 60 s after the latest not-duplicate
\* call is a duplicate (while the mapping still holds the key: eviction by the
\* size cap is C4's subject); a call made 60 s or more after it is not a
\* duplicate again.
C1_DedupIdempotence ==
    \A i \in 1..Len(calls) :
        /\ SameKeyFresh(i) = {} => ~calls[i].dup
        /\ SameKeyFresh(i) # {} =>
            /\ (calls[i].at - LastFreshAt(i) < NOTIFICATION_DEDUP_WINDOW /\ calls[i].held)
                    => calls[i].dup
            /\ calls[i].at - LastFreshAt(i) >= NOTIFICATION_DEDUP_WINDOW => ~calls[i].dup

\* three calls for one key: not-duplicate, duplicate inside the window, then
\* not-duplicate once the window has elapsed
C1_Witness ==
    \E i, j, k \in 1..Len(calls) :
        /\ i < j /\ j < k
        /\ calls[i].key = calls[j].key /\ calls[j].key = calls[k].key
        /\ ~calls[i].dup /\ calls[j].dup /\ ~calls[k].dup
        /\ calls[j].at - calls[i].at < NOTIFICATION_DEDUP_WINDOW
        /\ calls[k].at - calls[i].at >= NOTIFICATION_DEDUP_WINDOW

\* C3: a call that reports duplicate leaves the mapping as it was (no timestamp
\* refreshed, no key added, moved or evicted), and the elapsed time it reports
\* is measured from the latest not-duplicate call of that key.
C3_DuplicateLeavesMapping ==
    /\ (Len(calls) > 0 /\ calls[Len(calls)].dup) => notification_cache = prev_cache
    /\ \A i \in 1..Len(calls) :
          calls[i].dup =>
              /\ SameKeyFresh(i) # {}
              /\ calls[i].elapsed = calls[i].at - LastFreshAt(i)

\* identical events at t = 0 s, 30 s and 60 s: not-duplicate, duplicate, not-duplicate
C3_Witness ==
    /\ Len(calls) = 3
    /\ calls[1].key = calls[2].key /\ calls[2].key = calls[3].key
    /\ calls[1].at = 0 /\ calls[2].at = 30 /\ calls[3].at = 60
    /\ ~calls[1].dup /\ calls[2].dup /\ calls[2].elapsed = 30 /\ ~calls[3].dup
    /\ notification_cache = <<[key |-> calls[1].key, at |-> 60]>>

\* C4: the mapping never holds more than 1000 keys; a not-duplicate call puts
\* its key last with the time of the call, the entries it keeps are the newest
\* entries of the mapping before the call, in their order (so the ones removed
\* are the oldest-inserted, whatever their age), and none is removed unless
\* the cap forces it; a call for a key the mapping no longer holds is not a
\* duplicate.
C4_CacheBounded ==
    /\ Len(notification_cache) <= NOTIFICATION_CACHE_MAX
    /\ (Len(calls) > 0 /\ ~calls[Len(calls)].dup) =>
          LET key == calls[Len(calls)].key
              before == CacheWithout(prev_cache, key)
              n == Len(notification_cache) - 1
          IN  /\ n >= 0 /\ n <= Len(before)
              /\ notification_cache[n + 1] = [key |-> key, at |-> calls[Len(calls)].at]
              /\ SubSeq(notification_cache, 1, n) =
                     SubSeq(before, Len(before) - n + 1, Len(before))
              /\ n < Len(before) => Len(notification_cache) = NOTIFICATION_CACHE_MAX
    /\ \A i \in 1..Len(calls) : ~calls[i].held => ~calls[i].dup

\* a key recorded less than 60 s ago is evicted by the cap, and its repeat is
\* reported not-duplicate
C4_Witness ==
    /\ Len(notification_cache) = NOTIFICATION_CACHE_MAX
    /\ \E i, k \in 1..Len(calls) :
        /\ i < k
        /\ calls[i].key = calls[k].key
        /\ ~calls[i].dup /\ ~calls[k].dup /\ ~calls[k].held
        /\ calls[k].at - calls[i].at < NOTIFICATION_DEDUP_WINDOW

-----------------------------------------------------------------------------
(* Properties of the /notify pipeline *)

Count(seq, x) == Cardinality({i \in 1..Len(seq) : seq[i] = x})

Posts(r) == Count(trace[r], "post")

Called(r, what) == \E i \in 1..Len(trace[r]) : trace[r][i] = what

Checked(r) == Len(trace[r]) > 0

RequestKey(r) ==
    DedupKey(JoinWords(ActionOf(payload[r])), Field(payload[r]).job_id, Field(payload[r]).file)

CallsOf(key) == {i \in 1..Len(calls) : calls[i].key = key}

ActionMissing(p) ==
    Field(p).action.kind = "absent" \/ (Field(p).action.kind = "string" /\ Field(p).action.words = << >>)

\* C5 (as claimed): a request whose action is missing, empty or blank, a body
\* that is not JSON included, is answered 400 with ok false, and nothing is
\* recorded, looked up or sent for it.
C5_MissingActionRejected ==
    \A r \in Requests :
        (pc[r] = "done" /\ ActionMissing(payload[r])) =>
            /\ response[r] = MissingAction
            /\ trace[r] = << >>
            /\ notification_cache = << >>

ExitCodeIs(r, codes) ==
    /\ EndsWith(ActionOf(payload[r]), "exit")
    /\ Field(payload[r]).exit_code \in codes

\* C7 (as claimed): a not-duplicate request for an _exit action with exit code
\* 0 or none is answered suppressed and pushover_send is never called for it;
\* with exit code 1 it reaches pushover_send.
C7_ZeroExitSuppressed ==
    \A r \in Requests :
        (pc[r] = "done" /\ Checked(r) /\ trace[r][1] = "record") =>
            /\ ExitCodeIs(r, {"int0", "absent"}) =>
                  /\ response[r].kind = "suppressed" /\ response[r].ok = "true"
                  /\ ~Called(r, "send")
            /\ ExitCodeIs(r, {"int1"}) => Called(r, "send")

\* C8: a delivery makes at most NOTIFY_RETRY_ATTEMPTS POSTs and ends at the
\* first accepted one; each failed attempt but the last is followed by a wait
\* of base_delay * 2^(k-1), and no wait follows the last attempt.
C8_BoundedRetries ==
    \A r \in Requests :
        /\ Posts(r) <= NOTIFY_RETRY_ATTEMPTS
        /\ \A k \in 1..Len(waits[r]) : waits[r][k] = NOTIFY_RETRY_DELAY * Pow2(k - 1)
        /\ pc[r] = "post" => Len(waits[r]) = Posts(r) /\ attempt[r] = Posts(r)
        /\ pc[r] = "sleep" => Len(waits[r]) = Posts(r) /\ Posts(r) < NOTIFY_RETRY_ATTEMPTS
        /\ (pc[r] = "done" /\ Posts(r) > 0) =>
              /\ Len(waits[r]) = Posts(r) - 1
              /\ trace[r][Len(trace[r])] = "post"
              /\ Posts(r) < NOTIFY_RETRY_ATTEMPTS => response[r].pushover = PushReplyAccepted

\* three POSTs, the third accepted, with waits of 2 s and 4 s between them
C8_Witness ==
    \E r \in Requests :
        /\ pc[r] = "done"
        /\ Posts(r) = 3
        /\ waits[r] = <<2, 4>>
        /\ response[r].pushover = PushReplyAccepted

IndicatesFailure(res) == res.ok = "false" \/ (res.ok = "none" /\ res.status = 0)

\* C9 (as claimed): when every delivery attempt has failed, the answer is still
\* ok true and its pushover field is a delivery result that indicates failure.
C9_FailedDeliveryReported ==
    \A r \in Requests :
        (pc[r] = "done" /\ Posts(r) = NOTIFY_RETRY_ATTEMPTS
                        /\ response[r].pushover # PushReplyAccepted) =>
            /\ response[r].kind = "result"
            /\ response[r].ok = "true"
            /\ IndicatesFailure(response[r].pushover)

\* C10 (as claimed): every request is answered with a JSON result that has an
\* ok flag; the handler never raises.
C10_AlwaysStructured ==
    \A r \in Requests :
        pc[r] = "done" => response[r].kind # "crash" /\ response[r].ok \in {"true", "false"}

\* a request is waiting on an outbound call
Outbound == {"api", "api_clean", "tmdb", "post", "sleep"}

\* C11 (as claimed): while one request waits on an outbound call, every other
\* request that is not yet answered can take its next step.
C11_OutboundNeverBlocks ==
    \A r, q \in Requests :
        (r # q /\ pc[r] \in Outbound /\ pc[q] # "done") => ENABLED Handle(q)

-----------------------------------------------------------------------------
(* Callers of cache_find_program racing with changes of the guide file *)

\* what the file is replaced with at modification time mtime
NewGuideFiles(mtime) ==
    {File("json", mtime, doc) : doc \in {GuideSmall, GuideSpread, GuideSameStart}}

\* what the file can be when the process starts
GuideFiles(mtime) ==
    NewGuideFiles(mtime) \cup
        {File("json", mtime, GuideBadChannels), File("json", mtime, ListDoc),
         File("invalid_json", mtime, NoDoc), MissingFile}

\* the guide file is replaced (its modification time changes) or removed
GuideChanges ==
    /\ changes < MaxChanges
    /\ changes' = changes + 1
    /\ epg_file' \in (NewGuideFiles(changes + 1) \cup {MissingFile})
    /\ epg_file' # epg_file
    /\ UNCHANGED <<epgVars, epg_index_max_size, lookups, pipelineVars>>

InitGuide ==
    /\ now = 0
    /\ ticks = 0
    /\ notification_cache = << >>
    /\ prev_cache = << >>
    /\ calls = << >>
    /\ InitRequests
    /\ po_configured = TRUE
    /\ api_enabled = TRUE
    /\ guide = "ok"
    /\ changes = 0
    /\ epg_file \in GuideFiles(0)
    /\ epg_index_max_size = 4
    /\ InitEpg
    /\ InitNoDict
    /\ InitNoSide
    /\ InitNoQuery

NextGuide ==
    \/ GuideChanges
    \/ \E g \in Readers :
        \/ CallLookup(g)
        \/ FileRead(g)
        \/ LoadReturns(g)

SpecGuide == InitGuide /\ [][NextGuide]_vars

-----------------------------------------------------------------------------
(* Properties of the guide index *)

\* C12: what a call of cache_find_program works with, the (data, index) pair
\* _ensure_epg_index returned and the channel-display table, is a complete
\* snapshot together with the index and the table built from that very
\* snapshot, whatever the interleaving of callers and file changes; the module
\* state never pairs an index with data it was not built from.
C12_IndexOfOneSnapshot ==
    /\ \A g \in Readers :
          LET sn == lookups[g].seen IN
          sn.kind = "returned" =>
              /\ sn.data \in KnownDocs
              /\ sn.index = IndexOf[sn.data, epg_index_max_size].index
              /\ sn.display = DisplayOf[sn.data]
    /\ epg_index.built =>
          /\ epg_cache_data \in KnownDocs
          /\ epg_index = IndexOf[epg_cache_data, epg_index_max_size].index
          /\ epg_channel_display = DisplayOf[epg_cache_data]

\* two callers loaded across a change of the file, the slower one (holding the
\* older version) finishing last: each saw its own version with its own index
C12_Witness ==
    \E g, h \in Readers :
        /\ lookups[g].seen.kind = "returned" /\ lookups[h].seen.kind = "returned"
        /\ lookups[g].seen.data # lookups[h].seen.data
        /\ lookups[g].seen.index.built /\ lookups[h].seen.index.built
        /\ lookups[g].seen.index # lookups[h].seen.index
        /\ lookups[h].seen.data = LoadedData(epg_file)
        /\ epg_cache_data = lookups[g].seen.data
        /\ epg_cache_mtime # epg_file.mtime

\* the number of index entries a snapshot yields before any limit is applied
TotalEntries(data) == IndexOf[data, epg_index_max_size].total_entries

RECURSIVE SumOver(_)
SumOver(S) ==
    IF S = {} THEN 0 ELSE LET g == CHOOSE g \in S : TRUE IN lookups[g].over + SumOver(S \ {g})

\* C14 (as claimed): an index built from a snapshot with more entries than
\* EPG_INDEX_MAX_SIZE holds at most EPG_INDEX_MAX_SIZE entries, and each such
\* build adds one to memory_warnings.
C14_IndexWithinCeiling ==
    /\ \A g \in Readers :
          LET sn == lookups[g].seen IN
          (sn.kind = "returned" /\ TotalEntries(sn.data) > epg_index_max_size) =>
              IndexTotal(sn.index) <= epg_index_max_size
    /\ cache_stats.memory_warnings = SumOver(Readers)

-----------------------------------------------------------------------------
(* BoundedDict: the HTTPS-probe cache _https_support and _tmdb_cache *)

MaxOps == 4
MaxCapacity == 3

\* cache keys (probed hosts, TMDB search keys) and cached values
DictKeys == {"a", "b", "c"}
DictValues == {"yes", "no"}

KeysOf(od) == {od[i].key : i \in 1..Len(od)}
PosOf(od, key) == CHOOSE i \in 1..Len(od) : od[i].key = key
Without(od, key) == SelectSeq(od, LAMBDA e : e.key # key)

\* the operations that count as a use of their key
IsUse(op) == op.op = "set" \/ (op.op = "get" /\ op.hit)

\* OrderedDict.move_to_end(key)
KeepPlace(od, key) == od
move_to_end(od, key) == Without(od, key) \o <<od[PosOf(od, key)]>>

\* lines 129-131: while len(self) > self.max_size: del self[next(iter(self))]
RECURSIVE EvictOver(_, _)
EvictOver(od, n) == IF Len(od) > n THEN EvictOver(Tail(od), n) ELSE od

\* BoundedDict.__setitem__
setitem(od, key, value, n) ==
    LET removed == IF key \in KeysOf(od) THEN Without(od, key) ELSE od
    IN  EvictOver(removed \o <<[key |-> key, value |-> value]>>, n)

\* d[key]: BoundedDict.__getitem__; KeyError when the key is absent
GetItem ==
    \E key \in DictKeys :
        /\ Len(bd_uses) < MaxOps
        /\ bd_prev' = bounded_dict
        /\ IF key \in KeysOf(bounded_dict)
           THEN /\ bounded_dict' = move_to_end(bounded_dict, key)
                /\ bd_uses' = Append(bd_uses, [op |-> "get", key |-> key, hit |-> TRUE])
           ELSE /\ bounded_dict' = bounded_dict
                /\ bd_uses' = Append(bd_uses, [op |-> "get", key |-> key, hit |-> FALSE])
        /\ UNCHANGED <<bd_max_size, matchVars, sideVars, envVars, clockVars, dedupVars, reqVars,
                       guideVars>>

\* d[key] = value: BoundedDict.__setitem__
SetItem ==
    \E key \in DictKeys, value \in DictValues :
        /\ Len(bd_uses) < MaxOps
        /\ bd_prev' = bounded_dict
        /\ bounded_dict' = setitem(bounded_dict, key, value, bd_max_size)
        /\ bd_uses' = Append(bd_uses, [op |-> "set", key |-> key, hit |-> key \in KeysOf(bounded_dict)])
        /\ UNCHANGED <<bd_max_size, matchVars, sideVars, envVars, clockVars, dedupVars, reqVars,
                       guideVars>>

\* key in d: the membership test the callers make before reading
ContainsKey ==
    \E key \in DictKeys :
        /\ Len(bd_uses) < MaxOps
        /\ bd_prev' = bounded_dict
        /\ bd_uses' = Append(bd_uses, [op |-> "in", key |-> key, hit |-> key \in KeysOf(bounded_dict)])
        /\ UNCHANGED <<bounded_dict, bd_max_size, matchVars, sideVars, envVars, clockVars, dedupVars, reqVars,
                       guideVars>>

InitLru ==
    /\ now = 0
    /\ ticks = 0
    /\ notification_cache = << >>
    /\ prev_cache = << >>
    /\ calls = << >>
    /\ InitRequests
    /\ po_configured = TRUE
    /\ api_enabled = TRUE
    /\ guide = "ok"
    /\ InitNoGuide
    /\ InitNoQuery
    /\ InitNoSide
    /\ bd_max_size \in 1..MaxCapacity
    /\ bounded_dict = << >>
    /\ bd_prev = << >>
    /\ bd_uses = << >>

NextLru == GetItem \/ SetItem \/ ContainsKey

SpecLru == InitLru /\ [][NextLru]_vars

\* when key was last used (written, or read with []) in a history of operations
LastUse(key, uses) ==
    LET at == {i \in 1..Len(uses) : uses[i].key = key /\ IsUse(uses[i])}
    IN  IF at = {} THEN 0 ELSE CHOOSE i \in at : \A j \in at : j <= i

\* the key of od whose last use is the oldest
LruKey(od, uses) ==
    CHOOSE key \in KeysOf(od) : \A other \in KeysOf(od) : LastUse(key, uses) <= LastUse(other, uses)

\* C13: a BoundedDict of capacity N never holds more than N keys; its keys are
\* kept in the order of their last use (a write or a read with []), so the key
\* just written or read is the most recently used one; and a write of an absent
\* key to a full dictionary removes the least recently used key and no other.
C13_BoundedLru ==
    /\ Len(bounded_dict) <= bd_max_size
    /\ \A i, j \in 1..Len(bounded_dict) :
          i < j => LastUse(bounded_dict[i].key, bd_uses) < LastUse(bounded_dict[j].key, bd_uses)
    /\ bd_uses # << >> =>
          LET op == bd_uses[Len(bd_uses)]
              before == SubSeq(bd_uses, 1, Len(bd_uses) - 1)
          IN  /\ IsUse(op) => bounded_dict[Len(bounded_dict)].key = op.key
              /\ (op.op = "set" /\ ~op.hit /\ Len(bd_prev) = bd_max_size) =>
                    KeysOf(bounded_dict) =
                        (KeysOf(bd_prev) \ {LruKey(bd_prev, before)}) \cup {op.key}
              /\ (op.op = "set" /\ Len(bd_prev) < bd_max_size) =>
                    KeysOf(bounded_dict) = KeysOf(bd_prev) \cup {op.key}
              /\ ~(op.op = "set") => KeysOf(bounded_dict) = KeysOf(bd_prev)

\* a full dictionary of two or more keys whose first-written key was read again
\* before an absent key is written: the key evicted is not the first written
C13_Witness ==
    /\ Len(bd_uses) >= 4
    /\ bd_max_size >= 2
    /\ Len(bd_prev) = bd_max_size
    /\ LET op == bd_uses[Len(bd_uses)] IN op.op = "set" /\ ~op.hit
    /\ bd_uses[1].key \in KeysOf(bounded_dict)
    /\ \E i \in 1..Len(bd_uses) : bd_uses[i].op = "get" /\ bd_uses[i].hit
    /\ KeysOf(bd_prev) \ KeysOf(bounded_dict) # {}

-----------------------------------------------------------------------------
(* Direct calls of cache_find_program on a freshly started process *)

AtQuery == "20240101120000+0000"
Plus30s == "20240101120030+0000"
Plus400s == "20240101120640+0000"
Plus2h == "20240101140000+0000"
Minus2h == "20240101100000+0000"

Plus60s == "20240101120100+0000"
Minus60s == "20240101115900+0000"

Cnn == Chan("", "", "CNN")
AfnMovies == Chan("", "", "AFN Movies")
AfnSports == Chan("", "", "AFN Sports")

\* two programmes of one title that differ in start, channel and priority
Airings(first, second) ==
    Doc("object", <<Prog("Gutfeld!", first[1], first[2], first[3]),
                    Prog("Gutfeld!", second[1], second[2], second[3])>>, "dict", <<FoxEntry>>)

\* two programmes that differ only in their start time
Pair(title, first, second, channel, priority) ==
    Doc("object", <<Prog(title, first, channel, priority), Prog(title, second, channel, priority)>>,
        "dict", <<FoxEntry>>)

\* two programmes that differ only in their title
TitlePair(first, second, start, channel) ==
    Doc("object", <<Prog(first, start, channel, NoneInt), Prog(second, start, channel, NoneInt)>>,
        "dict", <<FoxEntry>>)

PairStarts ==
    {<<Plus30s, Plus400s>>, <<Plus400s, Plus30s>>, <<Plus2h, Minus2h>>, <<Minus2h, Plus2h>>}

MatchDocs ==
    {Pair("Gutfeld!", s[1], s[2], c, p) :
        s \in PairStarts, c \in {NoChannel, FoxNews, Cnn}, p \in {NoneInt, IntOf(3)}}
    \cup {TitlePair(t[1], t[2], s, c) :
            t \in {<<"Gutfeld!", "Gutfeld! Rewind">>, <<"Gutfeld! Rewind", "Gutfeld!">>},
            s \in {AtQuery, Plus400s}, c \in {NoChannel, Cnn}}
    \cup {Airings(<<Plus30s, AfnMovies, NoneInt>>, <<Plus400s, AfnMovies, IntOf(2)>>),
          Airings(<<Plus30s, AfnMovies, NoneInt>>, <<Plus400s, AfnSports, NoneInt>>),
          Airings(<<Plus400s, AfnMovies, NoneInt>>, <<Plus30s, AfnMovies, NoneInt>>),
          Airings(<<Plus60s, Cnn, NoneInt>>, <<Minus60s, Cnn, NoneInt>>),
          Airings(<<Plus60s, Cnn, NoneInt>>, <<Plus400s, Cnn, NoneInt>>),
          Airings(<<Plus400s, NoChannel, NoneInt>>, <<Plus30s, NoChannel, NoneInt>>)}
    \cup {GuideSmall, GuideSpread, GuideSameStart, GuideBadChannels, EmptyDoc}

Queries ==
    {Query(c, t, s, past) :
        c \in {NoChannel, FoxNews, Chan("US", ": ", "CNN"), AfnSports},
        t \in {"", "Gutfeld!", "Gutfeld", " GUTFELD", "!", "Five"},
        s \in {"", AtQuery},
        past \in BOOLEAN}

\* the index and the display table of each snapshot at the default ceiling, computed once
MatchIndexOf == [doc \in MatchDocs |-> BuildIndex(doc, EPG_INDEX_MAX_SIZE_DEFAULT).index]
MatchDisplayOf == [doc \in MatchDocs |-> BuildDisplay(doc.channels, << >>)]

\* one call from start to return, no other coroutine running: the guide is
\* loaded and indexed (lines 242-311), then matched (lines 481-703)
CallMatcher ==
    /\ query # NoQuery
    /\ matched = NotCalled
    /\ LET data == LoadedData(epg_file) IN
       /\ epg_cache_data' = data
       /\ epg_cache_mtime' = epg_file.mtime
       /\ IF BuildRaises(data)
          THEN /\ matched' = Raised
               /\ epg_index' = NoIndex
               /\ epg_channel_display' = << >>
               /\ cache_stats' = [cache_stats EXCEPT !.epg_misses = @ + 1]
          ELSE IF ~Truthy(data)
          THEN /\ matched' = NoRecord
               /\ epg_index' = [NoIndex EXCEPT !.built = TRUE]
               /\ epg_channel_display' = << >>
               /\ cache_stats' = [cache_stats EXCEPT !.epg_misses = @ + 1]
          ELSE /\ matched' = cache_find_program(data, MatchIndexOf[data], MatchDisplayOf[data], query)
               /\ epg_index' = MatchIndexOf[data]
               /\ epg_channel_display' = MatchDisplayOf[data]
               /\ cache_stats' = [cache_stats EXCEPT !.epg_misses = @ + 1]
    /\ UNCHANGED <<epg_file, changes, epg_index_max_size, lookups, query, hit_list, picked, sideVars, lruVars,
                   envVars,
                   clockVars, dedupVars, reqVars>>

InitMatch ==
    /\ now = 0
    /\ ticks = 0
    /\ notification_cache = << >>
    /\ prev_cache = << >>
    /\ calls = << >>
    /\ InitRequests
    /\ po_configured = TRUE
    /\ api_enabled = TRUE
    /\ guide = "ok"
    /\ changes = 0
    /\ epg_file \in {File("json", 0, doc) : doc \in MatchDocs} \cup {MissingFile}
    /\ epg_index_max_size = EPG_INDEX_MAX_SIZE_DEFAULT
    /\ InitEpg
    /\ InitNoDict
    /\ InitNoSide
    /\ query \in Queries
    /\ matched = NotCalled
    /\ hit_list = << >>
    /\ picked = NotCalled

NextMatch == CallMatcher

SpecMatch == InitMatch /\ [][NextMatch]_vars

-----------------------------------------------------------------------------
(* Properties of the matcher *)

\* guide entries to compare under one query: every title next to every start,
\* channel and priority
ScoredEntries ==
    {Prog(t, x[1], x[2], x[3]) :
        t \in {"Gutfeld!", "gutfeld", "Gutfeld! Rewind", "Gut", "The Five", "?"},
        x \in {<<"", NoChannel, NoneInt>>, <<AtQuery, FoxNews, NoneInt>>,
               <<Plus2h, FoxNews, IntOf(2)>>, <<Minus2h, Cnn, NoneInt>>}}

\* the entry has a title and its normalized form equals the query's
ExactTitle(ev, q) ==
    /\ TitleKey(q.title) # "" /\ EvTitle(ev) # ""
    /\ EvTitleNorm(ev) = TitleNorm(TitleKey(q.title))

\* the entry has a title that contains the query's or is contained in it, and
\* is not equal to it in normalized form
SubstringTitle(ev, q) ==
    /\ TitleKey(q.title) # "" /\ EvTitle(ev) # ""
    /\ EvTitleNorm(ev) # TitleNorm(TitleKey(q.title))
    /\ \/ Contains(EvTitleNorm(ev), TitleNorm(TitleKey(q.title)))
       \/ Contains(TitleNorm(TitleKey(q.title)), EvTitleNorm(ev))
       \/ Contains(EvTitle(ev), TitleKey(q.title))

SameButTitle(ev1, ev2) ==
    ev1.start = ev2.start /\ ev1.channel = ev2.channel /\ ev1.priority = ev2.priority

\* C15: under any query, with or without prefer_past, of two titled guide
\* entries that differ only in their title, the one whose normalized title
\* equals the query's scores at least as much as the one whose title only
\* contains the query's or is contained in it.
C15_ExactTitleScoresNoLess ==
    query # NoQuery =>
        LET entries == ScoredEntries \cup
                {epg_file.doc.programmes[i] : i \in 1..Len(epg_file.doc.programmes)}
        IN  \A ev1 \in {ev \in entries : ExactTitle(ev, query)} :
                \A ev2 \in {ev \in entries : SameButTitle(ev1, ev)} :
                    SubstringTitle(ev2, query) => Score(ev1, query) >= Score(ev2, query)

\* a call that scored an exact and a substring match of one snapshot, the two
\* differing only in their title, and gave the exact one strictly more
C15_Witness ==
    /\ matched # NotCalled /\ matched.kind = "found"
    /\ query.prefer_past
    /\ \E a, b \in 1..Len(matched.debug_scores) :
          LET sa == matched.debug_scores[a]
              sb == matched.debug_scores[b]
              ev1 == epg_cache_data.programmes[sa.pos]
              ev2 == epg_cache_data.programmes[sb.pos]
          IN  /\ SameButTitle(ev1, ev2)
              /\ ExactTitle(ev1, query) /\ SubstringTitle(ev2, query)
              /\ sa.score > sb.score
              /\ sa.score = Score(ev1, query)

\* the snapshot holds two programmes that differ only in their start time, and
\* the call made both of them candidates
TwoCandidates ==
    LET programmes == epg_cache_data.programmes IN
    /\ matched # NotCalled
    /\ Len(programmes) = 2
    /\ programmes[1].title = programmes[2].title
    /\ programmes[1].channel = programmes[2].channel
    /\ programmes[1].priority = programmes[2].priority
    /\ programmes[1].start # programmes[2].start
    /\ LET candidates == Candidates(epg_cache_data, epg_index, query)
       IN  {candidates[i] : i \in 1..Len(candidates)} = {1, 2}

\* start of a programme minus the start the query asks for
OffsetOf(start) == normalize_start(start).val - normalize_start(query.start_ts).val

CandidateOffsets ==
    {OffsetOf(epg_cache_data.programmes[i].start) : i \in 1..Len(epg_cache_data.programmes)}

\* C16 (as claimed): without prefer_past, of two candidates that differ only in
\* start time, one 30 s and one 400 s from the start asked for, the call
\* returns the one 30 s away, in whichever order the two are scanned.
C16_NearerStartReturned ==
    (TwoCandidates /\ ~query.prefer_past /\ query.start_ts # ""
        /\ CandidateOffsets = {30, 400})
    => (matched.kind = "found" /\ OffsetOf(matched.start) = 30)

-----------------------------------------------------------------------------
(* Properties of the resolution and of the body *)

\* the guide entries whose title differs from the payload's only in
\* punctuation and whose start is the payload's
PunctuationTwins(p) ==
    LET data == LoadedData(epg_file) IN
    {i \in 1..Len(data.programmes) :
        /\ data.programmes[i].title # Field(p).title
        /\ DropPunctuation(data.programmes[i].title) = DropPunctuation(Field(p).title)
        /\ data.programmes[i].start = Field(p).start}

\* a catchup_completed event that passed the duplicate check, with an empty
\* channel, a start time, and a title with a punctuation twin in the guide
CatchupCase(r) ==
    /\ ActionOf(payload[r]) = <<"catchup", "completed">>
    /\ trace[r] # << >> /\ trace[r][1] = "record"
    /\ channel_hint(payload[r]).present /\ ChannelText(channel_hint(payload[r])) = ""
    /\ Field(payload[r]).start # ""
    /\ LookupTitle(payload[r]) # ""
    /\ PunctuationTwins(payload[r]) # {}

HasLine(body, tag, text) == \E i \in 1..Len(body) : body[i] = Line(tag, text)

Missed(r) == composed[r] # NoFields /\ meta[r] = NoRecord

\* the programme name and the job id as the payload gives them, "Unknown" when absent
NameOrUnknown(p) == IF LookupTitle(p) # "" THEN LookupTitle(p) ELSE "Unknown"
JobOrUnknown(p) == IF Field(p).job_id # "" THEN Field(p).job_id ELSE "Unknown"

\* C19 (as claimed): a request whose lookups returned no record still has a
\* body composed, with "Unknown" for an absent programme name or job id, still
\* has pushover_send called exactly once, and is answered
\* {ok:true, enriched:false, used_api:false}.
C19_MissStillDelivered ==
    \A r \in Requests : Missed(r) =>
        /\ pc[r] # "tmdb" =>
            /\ Count(trace[r], "send") = 1
            /\ HasLine(message[r], "programme", NameOrUnknown(payload[r]))
            /\ HasLine(message[r], "job", JobOrUnknown(payload[r]))
        /\ pc[r] = "done" =>
            /\ response[r].kind = "result"
            /\ response[r].ok = "true"
            /\ ~response[r].enriched
            /\ ~response[r].used_api

\* what holds of a miss: for an event that is neither a zero exit nor a health
\* warning, the body has the two lines and pushover_send is called once; every
\* request that is answered with a delivery result reports no record
MissOfOrdinaryEvent ==
    \A r \in Requests : Missed(r) =>
        /\ (pc[r] # "tmdb" /\ ~ZeroExit(payload[r])) => Count(trace[r], "send") = 1
        /\ (Called(r, "send") /\ ActionOf(payload[r]) # <<"health", "warn">>) =>
            /\ HasLine(message[r], "programme", NameOrUnknown(payload[r]))
            /\ HasLine(message[r], "job", JobOrUnknown(payload[r]))
        /\ response[r].kind = "result" =>
            /\ response[r].ok = "true"
            /\ ~response[r].enriched
            /\ ~response[r].used_api

\* a miss with both placeholders in the body
MissWithPlaceholders ==
    /\ Missed("r1")
    /\ HasLine(message["r1"], "programme", "Unknown")
    /\ HasLine(message["r1"], "job", "Unknown")
    /\ response["r1"].kind = "result"

\* the entries the searches of api_find_program leave in a trace
SearchEntry(reply) == "search_" \o reply
FailedSearches == {SearchEntry(reply) : reply \in ApiFailures}
AllSearches == {SearchEntry(reply) : reply \in ApiReplies}

\* the entries of request r's trace from its latest call of api_find_program on
LastApiCall(r) ==
    LET at == {i \in 1..Len(trace[r]) : trace[r][i] = "api"}
        last == CHOOSE i \in at : \A j \in at : j <= i
    IN  SubSeq(trace[r], last + 1, Len(trace[r]))

\* the latest call of api_find_program has returned and every search it made
\* timed out, failed in the network, was answered with a non-success status,
\* or got a body that is not a non-empty list
ApiJustFailed(r) ==
    /\ Called(r, "api")
    /\ LastApiCall(r) # << >>
    /\ \A i \in 1..Len(LastApiCall(r)) : LastApiCall(r)[i] \in FailedSearches

\* C20: a disabled remote search makes api_find_program return no record, and
\* notify then does not call it; a call of api_find_program whose searches all
\* fail returns no record without raising; in both cases the local matcher
\* cache_find_program is called for the event before the body is composed.
C20_ApiFailureFallsBack ==
    /\ ~api_enabled =>
        \A p \in BodiesOne, replies \in ReplySeqs :
            api_find_program(ChannelText(channel_hint(p)), LookupTitle(p), Field(p).start,
                             replies).record = NoRecord
    /\ \A r \in Requests :
        /\ ~api_enabled => ~Called(r, "api")
        /\ ApiJustFailed(r) =>
            /\ pc[r] \in {"api_clean", "cache"}
            /\ meta[r] = NoRecord /\ ~used_api[r]
            /\ response[r] = NoResponse
        /\ \A i \in 1..Len(trace[r]) :
            (trace[r][i] \in FailedSearches /\ i < Len(trace[r])) =>
                trace[r][i + 1] \in AllSearches \cup {"api", "cache"}
        /\ (trace[r] # << >> /\ trace[r][1] = "record" /\ ~CacheFirst(payload[r])
                /\ ~Called(r, "search_hits") /\ pc[r] \in {"tmdb", "post", "sleep", "done"})
            => Called(r, "cache")

\* the three searches of one call failed in three different ways, the local
\* matcher was called next, and the request was answered
C20_Witness ==
    /\ api_enabled
    /\ Len(trace["r1"]) >= 6
    /\ SubSeq(trace["r1"], 1, 6) =
           <<"record", "api", "search_network", "search_status", "search_not_json", "cache">>
    /\ ~used_api["r1"]
    /\ response["r1"].kind = "result"

-----------------------------------------------------------------------------
(* Properties of Resolve *)

\* request r passed validation and the duplicate check
Resolving(r) == trace[r] # << >> /\ trace[r][1] = "record"

\* the event has a start time and neither a raw nor a cleaned channel
StartWithoutChannel(p) ==
    /\ Field(p).start # ""
    /\ ChannelText(Field(p).channel) = ""
    /\ clean_channel_name(Field(p).channel) = ""

CallsTo(r, fn) == {i \in 1..Len(asked[r]) : asked[r][i].fn = fn}

\* C21: for an event with a start time and no channel the remote resolver is
\* never called and used_api stays false; the local matcher is called, and
\* every call of it has prefer_past true exactly when the action starts with
\* catchup_.
C21_StartWithoutChannelGoesLocal ==
    \A r \in Requests : (Resolving(r) /\ StartWithoutChannel(payload[r])) =>
        /\ CallsTo(r, "api_find_program") = {}
        /\ CallsTo(r, "api_search") = {}
        /\ ~used_api[r]
        /\ response[r].kind = "result" => ~response[r].used_api
        /\ pc[r] # "cache_first" => CallsTo(r, "cache_find_program") # {}
        /\ \A i \in CallsTo(r, "cache_find_program") :
            asked[r][i].prefer_past = StartsWith(ActionOf(payload[r]), "catchup")

\* a catch-up without channel was looked up locally with prefer_past, found
\* nothing in an empty guide, was looked up again and answered
C21_Witness ==
    /\ Resolving("r1") /\ StartWithoutChannel(payload["r1"])
    /\ StartsWith(ActionOf(payload["r1"]), "catchup")
    /\ Len(asked["r1"]) = 2
    /\ asked["r1"][1].prefer_past /\ asked["r1"][2].prefer_past
    /\ response["r1"].kind = "result"


\* Resolve is over for request r: no resolver is left to be called
Resolved(r) == Resolving(r) /\ pc[r] \notin {"cache_first", "api", "api_clean", "cache"}

\* the searches among the calls asked[r][from + 1 .. to - 1] that brought hits
HitsBetween(r, from, to) ==
    {i \in (from + 1)..(to - 1) : asked[r][i].fn = "api_search" /\ asked[r][i].reply = "hits"}

\* the raw and the cleaned channel of an event, as text
RawChannel(p) == ChannelText(Field(p).channel)
CleanChannel(p) == clean_channel_name(Field(p).channel)

\* the remote resolver is enabled and the event has a title or a channel
RemoteUsable(p) ==
    api_enabled /\ (Field(p).title # "" \/ RawChannel(p) # "" \/ CleanChannel(p) # "")

\* C22: outside the start-without-channel case the remote resolver is called
\* first, with the raw channel, exactly when it is enabled and a title or a
\* channel is present; it is called a second time, with the cleaned channel,
\* exactly when the first call returned nothing and the cleaned channel is
\* non-empty and differs from the raw one; the local matcher is called exactly
\* when the remote calls returned nothing; used_api is true exactly when the
\* record used is the one the remote resolver returned.
C22_RemoteFirstThenLocal ==
    \A r \in Requests : (Resolving(r) /\ ~StartWithoutChannel(payload[r])) =>
        LET p == payload[r]
            apis == CallsTo(r, "api_find_program")
            caches == CallsTo(r, "cache_find_program")
            second == {i \in apis : i > 1}
            hits == HitsBetween(r, 0, Len(asked[r]) + 1)
        IN
        /\ ~RemoteUsable(p) => apis = {}
        /\ (RemoteUsable(p) /\ pc[r] # "api") =>
            /\ asked[r][1] = ApiCall(RawChannel(p), LookupTitle(p), Field(p).start)
        /\ Cardinality(apis) <= 2
        /\ \A i \in second :
            /\ HitsBetween(r, 1, i) = {}
            /\ CleanChannel(p) # "" /\ CleanChannel(p) # RawChannel(p)
            /\ asked[r][i] = ApiCall(CleanChannel(p), LookupTitle(p), Field(p).start)
        /\ (RemoteUsable(p) /\ pc[r] \notin {"api", "api_clean"} /\ hits = {}
                /\ CleanChannel(p) # "" /\ CleanChannel(p) # RawChannel(p)) => second # {}
        /\ \A i \in caches : hits = {} /\ \A j \in apis : j < i
        /\ Cardinality(caches) <= 1
        /\ Resolved(r) => (caches # {} <=> hits = {})
        /\ used_api[r] <=> (Resolved(r) /\ hits # {})
        /\ used_api[r] =>
            /\ caches = {}
            /\ \E i \in hits :
                \E k \in 1..Len(HitsFor(asked[r][i].title, asked[r][i].channel)) :
                    meta[r] = coerce_event(HitsFor(asked[r][i].title, asked[r][i].channel)[k])
        /\ (Resolved(r) /\ meta[r] # NoRecord /\ ~used_api[r]) =>
            meta[r] = CacheResult(FallbackQuery(p))
        /\ response[r].kind = "result" => response[r].used_api = used_api[r]

\* the raw channel brought nothing, the cleaned one was tried and brought the
\* record that was used
C22_Witness ==
    /\ Len(asked["r1"]) >= 4
    /\ asked["r1"][1] = ApiCall("US: Fox News", "", "")
    /\ asked["r1"][2].reply = "empty"
    /\ asked["r1"][3] = ApiCall("Fox News", "", "")
    /\ asked["r1"][4].reply = "hits"
    /\ CallsTo("r1", "cache_find_program") = {}
    /\ used_api["r1"] /\ response["r1"].kind = "result"

-----------------------------------------------------------------------------
(* Properties of api_find_program *)

\* the searches request r made within its call of api_find_program at asked[r][i]
SearchesOf(r, i) ==
    {k \in (i + 1)..Len(asked[r]) :
        \A j \in (i + 1)..k : asked[r][j].fn = "api_search"}

\* which of the three searches a search of the call is: 1 with title and
\* channel, 2 with the title only, 3 with the channel only, 0 for any other
SearchRank(call, search) ==
    IF search.title = call.title /\ search.channel = call.channel
            /\ call.title # "" /\ call.channel # "" THEN 1
    ELSE IF search.title = call.title /\ search.channel = "" /\ call.title # "" THEN 2
    ELSE IF search.title = "" /\ search.channel = call.channel /\ call.channel # "" THEN 3
    ELSE 0

\* the searches a call has the fields for
Eligible(call) ==
    {n \in 1..3 : (n # 3 => call.title # "") /\ (n # 2 => call.channel # "")}

\* the reply is a non-empty list
NonEmptyList(reply) == reply \in {"hits", "no_dicts"}

\* C23: every call of api_find_program makes its searches in the order title
\* with channel, title only, channel only, leaving out those whose fields
\* are absent and no other; a search follows another only if that one
\* brought no non-empty list; a call that returned with every search empty
\* made all the searches it had the fields for; and the record used is taken
\* from the list of the one search that brought hits.
C23_SearchesInOrder ==
    \A r \in Requests : \A i \in CallsTo(r, "api_find_program") :
        LET call == asked[r][i]
            made == SearchesOf(r, i)
            ranks == {SearchRank(call, asked[r][k]) : k \in made}
        IN
        /\ ranks \subseteq Eligible(call)
        /\ \A k, l \in made :
            k < l => /\ SearchRank(call, asked[r][k]) < SearchRank(call, asked[r][l])
                     /\ ~NonEmptyList(asked[r][k].reply)
        /\ \A n \in Eligible(call) : (\E m \in ranks : n < m) => n \in ranks
        /\ (\A k \in made : ~NonEmptyList(asked[r][k].reply)) => ranks = Eligible(call)
        /\ \A k \in made : asked[r][k].reply = "hits" =>
            /\ used_api[r]
            /\ \E e \in 1..Len(HitsFor(asked[r][k].title, asked[r][k].channel)) :
                meta[r] = coerce_event(HitsFor(asked[r][k].title, asked[r][k].channel)[e])

\* a call with title and channel whose first two searches brought nothing
\* and whose search by channel brought the record used
C23_Witness ==
    /\ Len(asked["r1"]) = 4
    /\ asked["r1"][1] = ApiCall("Fox News", "Gutfeld!", Start1)
    /\ asked["r1"][2] = SearchCall("Fox News", "Gutfeld!", "empty")
    /\ asked["r1"][3] = SearchCall("", "Gutfeld!", "status")
    /\ asked["r1"][4] = SearchCall("Fox News", "", "hits")
    /\ meta["r1"].title = "Hannity"
    /\ response["r1"].kind = "result"

-----------------------------------------------------------------------------
(* Direct calls of _pick_best_from_list *)

MaxHits == 2

\* the entries a returned list is made of: one channel, no priority, so that
\* only title and start tell them apart
HitEntries ==
    {Prog(t, s, FoxNews, NoneInt) :
        t \in {"Gutfeld!", "Gutfeld! Rewind", "The Five"},
        s \in {AtQuery, Plus30s, Plus400s}}
    \cup {NotADict}

HitLists == UNION {[1..n -> HitEntries] : n \in 1..MaxHits}

PickQueries ==
    {Query(NoChannel, t, s, FALSE) : t \in {"", "Gutfeld!", "Gutfeld"}, s \in {"", AtQuery}}

\* one call of _pick_best_from_list(hit_list, title, start) from start to return
CallPicker ==
    /\ picked = NotCalled
    /\ picked' = [kind |-> "picked",
                  at |-> pick_best_from_list(hit_list, query.title, query.start_ts),
                  record |-> Picked(hit_list,
                                    pick_best_from_list(hit_list, query.title, query.start_ts))]
    /\ UNCHANGED <<query, matched, hit_list, sideVars, guideVars, lruVars, envVars, clockVars, dedupVars,
                   reqVars>>

InitPick ==
    /\ now = 0
    /\ ticks = 0
    /\ notification_cache = << >>
    /\ prev_cache = << >>
    /\ calls = << >>
    /\ InitRequests
    /\ po_configured = TRUE
    /\ api_enabled = TRUE
    /\ guide = "none"
    /\ changes = 0
    /\ epg_file = MissingFile
    /\ epg_index_max_size = EPG_INDEX_MAX_SIZE_DEFAULT
    /\ InitEpg
    /\ InitNoDict
    /\ InitNoSide
    /\ query \in PickQueries
    /\ matched = NotCalled
    /\ hit_list \in HitLists
    /\ picked = NotCalled

NextPick == CallPicker

SpecPick == InitPick /\ [][NextPick]_vars

-----------------------------------------------------------------------------
(* Properties of _pick_best_from_list *)

\* every entry of the list is a dict
AllDicts(lst) == \A i \in 1..Len(lst) : lst[i] # NotADict

\* the position the selection of cache_find_program (lines 559-690) takes
\* when the list is its candidate list
MatcherChoice(lst, q) ==
    LET st == Select(lst, [i \in 1..Len(lst) |-> i], 1, q, NoBest)
    IN  IF st.best # 0 THEN st.best ELSE 1

\* C24: for every returned list of records and every query title and start,
\* _pick_best_from_list chooses the record that the scoring and selection of
\* the local matcher chooses over that list.
C24_PickAsMatcher ==
    (picked # NotCalled /\ AllDicts(hit_list)) =>
        picked.at = MatcherChoice(hit_list, query)

\* what _pick_best_from_list does choose: the first of the entries with the
\* highest score of its own scale, all of them being scanned
PickTakesFirstMaximum ==
    (picked # NotCalled /\ AllDicts(hit_list)) =>
        LET score(i) == PickScore(hit_list[i], TitleKey(query.title),
                                  normalize_start(query.start_ts),
                                  normalize_start(hit_list[i].start))
        IN  /\ picked.at \in 1..Len(hit_list)
            /\ \A i \in 1..Len(hit_list) :
                /\ score(i) <= score(picked.at)
                /\ score(i) = score(picked.at) => picked.at <= i

-----------------------------------------------------------------------------
(* Properties of the selection among the candidates *)

\* the candidate list of the call made, and the score of its i-th entry
CandidateList == Candidates(epg_cache_data, epg_index, query)
ScoreAt(candidates, i) == Score(epg_cache_data.programmes[candidates[i]], query)

\* the call returned and its candidate list was not empty
Selected == matched # NotCalled /\ matched # Raised /\ Truthy(epg_cache_data)
                /\ CandidateList # << >>

MinOf(S) == CHOOSE i \in S : \A j \in S : i <= j

\* the positions in the candidate list whose score reaches 12
GoodEnough(candidates) ==
    {i \in 1..Len(candidates) : ScoreAt(candidates, i) >= 12 * SCORE_SCALE}

\* C25: for every non-empty candidate list cache_find_program returns the
\* first candidate in scan order whose score is at least 12, the scan stopping
\* there; when no candidate scores 12 it returns a candidate whose score is
\* the maximum over all candidates.
C25_FirstGoodEnoughOrMaximum ==
    Selected =>
        LET candidates == CandidateList
            good == GoodEnough(candidates)
        IN  /\ matched.kind = "found"
            /\ good # {} =>
                /\ matched.pos = candidates[MinOf(good)]
                /\ Len(matched.debug_scores) = MinOf(good)
            /\ good = {} =>
                \A i \in 1..Len(candidates) :
                    ScoreAt(candidates, i) <= Score(epg_cache_data.programmes[matched.pos], query)

\* what holds of the selection: the first candidate that reaches 12 is
\* returned; else the maximum is returned when some candidate scores above -1
MaximumAboveSentinel ==
    Selected =>
        LET candidates == CandidateList
            good == GoodEnough(candidates)
        IN  /\ matched.kind = "found"
            /\ good # {} =>
                /\ matched.pos = candidates[MinOf(good)]
                /\ Len(matched.debug_scores) = MinOf(good)
            /\ (good = {} /\ \E i \in 1..Len(candidates) : ScoreAt(candidates, i) > -SCORE_SCALE)
                => \A i \in 1..Len(candidates) :
                    ScoreAt(candidates, i) <= Score(epg_cache_data.programmes[matched.pos], query)


\* C26: when the candidate list is not empty and no candidate scores above
\* zero, cache_find_program returns the first candidate in scan order; it
\* returns nothing only when the candidate list or the snapshot is empty.
C26_FallbackToFirst ==
    /\ (Selected /\ \A i \in 1..Len(CandidateList) : ScoreAt(CandidateList, i) <= 0) =>
        (matched.kind = "found" /\ matched.pos = CandidateList[1])
    /\ matched = NoRecord => (~Truthy(epg_cache_data) \/ CandidateList = << >>)

\* what holds of the fallback: the first candidate is returned when no
\* candidate scores above -1, and nothing is returned only for an empty
\* candidate list or snapshot
FallbackBelowSentinel ==
    /\ (Selected /\ \A i \in 1..Len(CandidateList) :
                        ScoreAt(CandidateList, i) <= -SCORE_SCALE) =>
        (matched.kind = "found" /\ matched.pos = CandidateList[1])
    /\ matched = NoRecord => (~Truthy(epg_cache_data) \/ CandidateList = << >>)

\* a fallback was made: no candidate was taken by the scan
FallbackMade ==
    /\ Selected
    /\ Len(CandidateList) = 2
    /\ \A i \in 1..2 : ScoreAt(CandidateList, i) <= -SCORE_SCALE
    /\ matched.pos = CandidateList[1]


\* the call returned and had two candidates with exactly equal scores
TiedPair ==
    /\ Selected
    /\ Len(CandidateList) = 2
    /\ ScoreAt(CandidateList, 1) = ScoreAt(CandidateList, 2)

\* the normalized start of the i-th candidate
StartAt(candidates, i) == normalize_start(epg_cache_data.programmes[candidates[i]].start)

\* the tie is one the earlier start decides: a catch-up, both starts parseable
DecidedByStart ==
    /\ query.prefer_past
    /\ ~StartAt(CandidateList, 1).none
    /\ ~StartAt(CandidateList, 2).none

\* C27: of two candidates with exactly equal scores, with prefer_past and both
\* starts parseable the one with the earlier normalized start is returned
\* whatever the scan order; without prefer_past, or with a start missing,
\* the one scanned first is returned.
C27_TieGoesToEarlierStart ==
    TiedPair =>
        /\ matched.kind = "found"
        /\ (DecidedByStart /\ StartAt(CandidateList, 2).val < StartAt(CandidateList, 1).val)
            => matched.pos = CandidateList[2]
        /\ (DecidedByStart /\ StartAt(CandidateList, 2).val >= StartAt(CandidateList, 1).val)
            => matched.pos = CandidateList[1]
        /\ ~DecidedByStart => matched.pos = CandidateList[1]

\* what holds of a tie: the claim, for equal scores above -1 and below 12
TieBelowThreshold ==
    (TiedPair /\ ScoreAt(CandidateList, 1) > -SCORE_SCALE
              /\ ScoreAt(CandidateList, 1) < 12 * SCORE_SCALE) =>
        /\ matched.kind = "found"
        /\ (DecidedByStart /\ StartAt(CandidateList, 2).val < StartAt(CandidateList, 1).val)
            => matched.pos = CandidateList[2]
        /\ (DecidedByStart /\ StartAt(CandidateList, 2).val >= StartAt(CandidateList, 1).val)
            => matched.pos = CandidateList[1]
        /\ ~DecidedByStart => matched.pos = CandidateList[1]

\* a tie below 12 was decided by the start: the candidate scanned second,
\* which aired earlier, was returned
TieDecidedByStart ==
    /\ TiedPair /\ DecidedByStart
    /\ ScoreAt(CandidateList, 1) > -SCORE_SCALE
    /\ ScoreAt(CandidateList, 1) < 12 * SCORE_SCALE
    /\ StartAt(CandidateList, 2).val < StartAt(CandidateList, 1).val
    /\ matched.pos = CandidateList[2]

-----------------------------------------------------------------------------
(* Properties of the candidate generation *)

\* the keys of the call made (lines 484-488)
QueryKey == TitleKey(query.title)
QueryKeyNorm == Strip(DropPunctuation(QueryKey))
QueryStart == normalize_start(query.start_ts)
QueryChannel == clean_channel_name(query.channel)

\* the call returned and the guide it read has programmes
Generated == matched # NotCalled /\ matched # Raised /\ Truthy(epg_cache_data)

Elements(seq) == {seq[i] : i \in 1..Len(seq)}
NoDuplicates(seq) == \A i, j \in 1..Len(seq) : seq[i] = seq[j] => i = j

\* what each stage finds by itself: the title scan of a catch-up, the by_start
\* buckets, the by_title buckets, the capped title scan, the first programme
\* of the channel
PastStage ==
    IF query.prefer_past /\ QueryKeyNorm # ""
    THEN TitleScan(epg_cache_data.programmes, 1, QueryKeyNorm, << >>) ELSE << >>
StartStage ==
    IF ~(query.prefer_past /\ QueryKeyNorm # "") /\ ~QueryStart.none
    THEN StartScan(epg_index.by_start, QueryStart.val, 1, << >>) ELSE << >>
TitleStage ==
    IF QueryKey # "" /\ ~query.prefer_past
    THEN Elements(BucketOf(epg_index.by_title, QueryKey))
            \cup (IF QueryKeyNorm # "" /\ QueryKeyNorm # QueryKey
                  THEN Elements(BucketOf(epg_index.by_title, QueryKeyNorm)) ELSE {})
    ELSE {}
ScanStage ==
    IF QueryKey # ""
    THEN FallbackScan(epg_cache_data.programmes, 1, QueryKey, QueryKeyNorm, << >>) ELSE << >>
ChannelStage ==
    IF QueryChannel # "" THEN ChannelScan(epg_cache_data.programmes, QueryChannel) ELSE << >>

\* the candidates of the first two stages, of which at most one runs
FirstStages == PastStage \o StartStage

\* C28: the stages run in the order title scan of a catch-up, by_start
\* buckets, by_title buckets, capped title scan, first channel match; a stage
\* adds candidates only if every earlier stage found none, and no guide entry
\* is in the list twice.
C28_StagesStopAtFirstYield ==
    Generated =>
        /\ NoDuplicates(CandidateList)
        /\ StartStage # << >> => PastStage = << >>
        /\ (\E c \in Elements(CandidateList) : c \in TitleStage /\ c \notin Elements(FirstStages))
            => FirstStages = << >>
        /\ (FirstStages = << >> /\ TitleStage = {} /\ ScanStage # << >>)
            => CandidateList = ScanStage
        /\ (FirstStages = << >> /\ TitleStage = {} /\ ScanStage = << >>)
            => CandidateList = ChannelStage

\* the claim as the code has it: the by_title buckets are read for every
\* query with a title that is not a catch-up, and what they hold is added
\* after the candidates of the by_start buckets; the capped title scan runs
\* only when there is no candidate so far, the channel match only when there
\* is still none; no guide entry is in the list twice.
C28_TitleBucketsAdded ==
    Generated =>
        /\ NoDuplicates(CandidateList)
        /\ StartStage # << >> => PastStage = << >>
        /\ (FirstStages # << >> \/ TitleStage # {}) =>
            /\ Len(CandidateList) >= Len(FirstStages)
            /\ SubSeq(CandidateList, 1, Len(FirstStages)) = FirstStages
            /\ Elements(CandidateList) = Elements(FirstStages) \cup TitleStage
        /\ (FirstStages = << >> /\ TitleStage = {} /\ ScanStage # << >>)
            => CandidateList = ScanStage
        /\ (FirstStages = << >> /\ TitleStage = {} /\ ScanStage = << >>)
            => CandidateList = ChannelStage

\* the by_start buckets gave a candidate and the by_title bucket added another
C28_Witness ==
    /\ Generated
    /\ StartStage # << >>
    /\ Len(CandidateList) > Len(StartStage)
    /\ \E c \in Elements(CandidateList) : c \in TitleStage /\ c \notin Elements(StartStage)

-----------------------------------------------------------------------------
(* Properties of the counters of _ensure_epg_index *)

\* the calls of _ensure_epg_index caller g has made that are over, returned or raised
Finished(g) == lookups[g].count - (IF lookups[g].pc = "idle" THEN 0 ELSE 1)

\* every finished call counted once, as a hit or as a miss; a built index and
\* the display table are those of the data held
CountedOnce ==
    /\ cache_stats.epg_hits + cache_stats.epg_misses = Finished("g1") + Finished("g2")
    /\ epg_index.built =>
          /\ epg_index = IndexOf[epg_cache_data, epg_index_max_size].index
          /\ epg_channel_display = DisplayOf[epg_cache_data]

\* C29: every call of _ensure_epg_index adds one to exactly one of epg_hits
\* and epg_misses; a miss is counted only for the first access and for the
\* first access after the modification time of the file changed, every other
\* access being a hit on the index held; a reload drops the old data, index
\* and channel-display table together.
C29_MissOnlyOnChange ==
    /\ CountedOnce
    /\ cache_stats.epg_misses <= 1 + changes

\* two calls were made one after the other on an unchanged guide: one miss, one hit
MissThenHit ==
    /\ changes = 0
    /\ lookups["g1"].count = 2 /\ lookups["g1"].pc = "idle" /\ lookups["g2"].count = 0
    /\ cache_stats.epg_misses = 1 /\ cache_stats.epg_hits = 1


-----------------------------------------------------------------------------
(* Properties of the catalog lookup *)

\* what the payload and the programme record give for a key before the catalog
\* is looked up
Primary(r, name) ==
    LET own == IF payload[r].body = "object" THEN payload[r][name] ELSE ""
    IN  IF own # "" THEN own
        ELSE IF meta[r].kind = "found" THEN meta[r][name]
        ELSE ""

\* the request is past the catalog lookup
PastCatalog(r) == composed[r] # NoFields /\ pc[r] # "tmdb"

MovieOrSeries(r) ==
    LET action == ActionOf(payload[r])
    IN  Len(action) >= 2 /\ action[1] \in {"movie", "series"}

\* the catalog answered with metadata: a year and a type already set stay, empty
\* ones are filled from the metadata, and a non-empty overview is the description
CatalogFillsTheEmpty(r) ==
    LET c == composed[r]
        t == c.tmdb
    IN  /\ Primary(r, "year") # "" => c.year = Primary(r, "year")
        /\ Primary(r, "type") # "" => c.kind = Primary(r, "type")
        /\ (Primary(r, "year") = "" /\ t.date = "") => c.year = ""
        /\ (Primary(r, "year") = "" /\ t.date # "") =>
                /\ Len(c.year) = IF Len(t.date) < 4 THEN Len(t.date) ELSE 4
                /\ c.year = SubSeq(t.date, 1, Len(c.year))
        /\ (Primary(r, "type") = "" /\ t.genres = << >>) => c.kind = ""
        /\ (Primary(r, "type") = "" /\ t.genres # << >>) =>
                /\ Len(c.kind) >= Len(t.genres[1])
                /\ SubSeq(c.kind, 1, Len(t.genres[1])) = t.genres[1]
        /\ c.desc_raw = IF t.overview # "" THEN t.overview ELSE Primary(r, "desc")

\* the catalog gave nothing or the lookup failed: year, type and description are
\* the primary ones, and the request went on to the suppression test and the delivery
CatalogLeavesAlone(r) ==
    LET c == composed[r]
    IN  /\ c.year = Primary(r, "year")
        /\ c.kind = Primary(r, "type")
        /\ c.desc_raw = Primary(r, "desc")
        /\ PastCatalog(r) =>
                IF ZeroExit(payload[r]) THEN response[r].kind = "suppressed"
                ELSE Count(trace[r], "send") = 1

\* C30: the catalog is looked up only for actions that start with movie_ or
\* series_; when it answers with metadata, a year or type that the payload or
\* the programme record set stays and only empty ones are filled, while a
\* non-empty overview replaces the description; when it gives nothing or fails,
\* the three stay as they were and the request still goes on to delivery.
C30_CatalogOverlay ==
    \A r \in Requests :
        /\ (Count(trace[r], "tmdb") > 0 \/ composed[r].tmdb # TmdbSkipped) => MovieOrSeries(r)
        /\ composed[r].tmdb.kind = "meta" => CatalogFillsTheEmpty(r)
        /\ composed[r].tmdb.kind \in {"nothing", "raised"} => CatalogLeavesAlone(r)

\* a series event whose record carries a year and a description but no type,
\* answered by the catalog with an overview, a date and four genres, and
\* delivered: the overview replaced the description, the year stayed, the type
\* was filled with three genres
C30_Witness ==
    \E r \in Requests :
        /\ pc[r] = "done"
        /\ composed[r].tmdb.kind = "meta"
        /\ composed[r].tmdb.overview # "" /\ composed[r].tmdb.date # ""
        /\ Len(composed[r].tmdb.genres) > 3
        /\ Primary(r, "year") = "2021" /\ composed[r].year = "2021"
        /\ Primary(r, "type") = "" /\ composed[r].kind = "Comedy, Talk, News"
        /\ Primary(r, "desc") # "" /\ composed[r].desc_raw = composed[r].tmdb.overview
        /\ Count(trace[r], "send") = 1

\* a movie event whose lookup raised, delivered with the payload's own year,
\* type and description
CatalogFailedAndDelivered ==
    \E r \in Requests :
        /\ pc[r] = "done"
        /\ composed[r].tmdb = TmdbRaised
        /\ composed[r].year = "1995" /\ composed[r].kind = "Film"
        /\ composed[r].desc_raw = "A heist goes wrong."
        /\ Count(trace[r], "send") = 1


-----------------------------------------------------------------------------
(* Properties of the dedup record across failures *)

\* the delivery of request r came to nothing: the event was suppressed, every
\* attempt failed, or the request waits between two attempts
Suppression(r) == pc[r] = "done" /\ response[r].kind = "suppressed"
AllAttemptsFailed(r) ==
    /\ pc[r] = "done" /\ Posts(r) = NOTIFY_RETRY_ATTEMPTS
    /\ response[r].pushover # PushReplyAccepted
InBackoff(r) == pc[r] = "sleep"

\* every check made for the key lies within one window of every other
WithinOneWindow(key) ==
    \A i, j \in CallsOf(key) : calls[i].at - calls[j].at < NOTIFICATION_DEDUP_WINDOW

DuplicateOfSuppressed ==
    \E r, q \in Requests :
        /\ r # q /\ Suppression(r) /\ RequestKey(q) = RequestKey(r)
        /\ response[q].kind = "deduplicated"
DuplicateDuringBackoff ==
    \E r, q \in Requests :
        /\ r # q /\ InBackoff(r) /\ RequestKey(q) = RequestKey(r)
        /\ response[q].kind = "deduplicated"


-----------------------------------------------------------------------------
(* Properties of the cached snapshot once the loads are over *)

\* no call of cache_find_program is under way
Quiescent == \A g \in Readers : lookups[g].pc = "idle"

\* the guide file is one _ensure_epg_index can index
WellShaped(file) == LoadedData(file).shape # "list" /\ LoadedData(file).channels_shape # "list"

\* the data the next call of _ensure_epg_index returns while the file stays as it is
NextData == IF NeedsLoad(epg_file.mtime) THEN LoadedData(epg_file) ELSE epg_cache_data

\* C32 (as claimed): once no load is under way, the next access returns the
\* current content of the guide file, whatever loads and file changes raced
\* before (for a guide of the proper shape).
C32_NextAccessIsCurrent ==
    (Quiescent /\ WellShaped(epg_file)) => NextData = LoadedData(epg_file)

\* what holds: with a file in place, a recorded mtime equal to the file's labels
\* the file's content once no load is under way
LabelOfPresentFile ==
    (Quiescent /\ epg_file # MissingFile /\ epg_cache_mtime = epg_file.mtime
               /\ epg_cache_data # NoDoc) =>
        epg_cache_data = LoadedData(epg_file)

\* the file is gone, no load is under way, and the cache holds programmes under
\* the mtime of a missing file
StaleAfterRemoval ==
    /\ Quiescent
    /\ epg_file = MissingFile
    /\ epg_cache_mtime = NoMtime
    /\ epg_cache_data.shape = "object"


-----------------------------------------------------------------------------
(* Properties of the order of the dedup mapping *)

\* the entries of the mapping are in non-decreasing order of recorded time
OrderedByTime(cache) ==
    \A i \in 1..(Len(cache) - 1) : cache[i].at <= cache[i + 1].at

\* the latest call dropped an entry other than its own key's: the size bound evicted it
EvictedByLatest ==
    /\ prev_cache # << >>
    /\ prev_cache[1].key \notin CacheKeys(notification_cache)

\* C33: after any sequence of calls made under a clock that does not go back,
\* the entries of the dedup mapping are in non-decreasing order of recorded
\* time, a re-recorded expired key being the newest entry, so the size bound
\* evicts the key recorded longest ago.
C33_OldestEvictedFirst ==
    /\ OrderedByTime(notification_cache)
    /\ (Len(calls) > 0 /\ ~calls[Len(calls)].dup) =>
            notification_cache[Len(notification_cache)] =
                [key |-> calls[Len(calls)].key, at |-> calls[Len(calls)].at]
    /\ EvictedByLatest =>
            /\ \A i \in 1..Len(prev_cache) : prev_cache[1].at <= prev_cache[i].at
            /\ \A i \in 1..Len(notification_cache) : prev_cache[1].at <= notification_cache[i].at

\* an expired key that was the oldest entry of a full mapping has been recorded
\* again: it is now the newest entry, behind entries recorded before it
C33_Witness ==
    /\ Len(calls) > 0
    /\ calls[Len(calls)].held /\ ~calls[Len(calls)].dup
    /\ Len(prev_cache) = NOTIFICATION_CACHE_MAX
    /\ prev_cache[1].key = calls[Len(calls)].key
    /\ notification_cache[Len(notification_cache)].key = calls[Len(calls)].key
    /\ notification_cache[Len(notification_cache)].at > notification_cache[1].at

\* a full mapping took a new key and lost its oldest entry
OldestEvicted ==
    /\ EvictedByLatest
    /\ Len(prev_cache) = NOTIFICATION_CACHE_MAX
    /\ Len(notification_cache) = NOTIFICATION_CACHE_MAX


-----------------------------------------------------------------------------
(* The HTTPS probe: _probe_https_once over the BoundedDict _https_support *)

MaxProbes == 3

\* ALLOW_HTTP_HOSTS as it is when the environment does not set it
SAFE_HTTP_HOSTS == {"localhost", "127.0.0.1", "snappier-server"}

\* the strings the preflight scan finds in the schedules and the guide
ProbeUrls ==
    { "http://example.com/a.m3u8", "http://Example.COM:8080/b", "http://cdn.test/x",
      "http://localhost:8000/epg", "http:///nohost", "https://example.com/a",
      "HTTP://example.com/a" }

\* what the probe request comes to: an exception, or a response with a status
Outcome(raised, status) == [raised |-> raised, status |-> status]
ProbeOutcomes == {Outcome(TRUE, 0), Outcome(FALSE, 200), Outcome(FALSE, 399), Outcome(FALSE, 404)}

\* url_http.startswith('http://')
StartsWithHttp(url) == Len(url) >= 7 /\ SubSeq(url, 1, 7) = "http://"

\* 'https://' + url_http[len('http://'):]
HttpsUrl(url) == "https://" \o SubSeq(url, 8, Len(url))

\* the text of s up to the first character of stops
RECURSIVE UpTo(_, _)
UpTo(s, stops) ==
    IF s = "" \/ IndexIn(CharAt(s, 1), stops) # 0 THEN ""
    ELSE CharAt(s, 1) \o UpTo(SubSeq(s, 2, Len(s)), stops)

\* urllib.parse.urlparse(url).hostname of an https:// URL without user
\* information or brackets: the network location up to the port, in lower
\* case; None ("") when it is empty
host_from_url(url) == LowerOfText(UpTo(UpTo(SubSeq(url, 9, Len(url)), "/?#"), ":"))

\* lines 337-343: the URL is one the probe is made for
Probed(url) ==
    /\ StartsWithHttp(url)
    /\ host_from_url(HttpsUrl(url)) # ""
    /\ host_from_url(HttpsUrl(url)) \notin SAFE_HTTP_HOSTS

\* the mutant of InCache: no host is found in the cache
InCacheNever(od, host) == FALSE

\* line 344: host in _https_support
InCache(od, host) == host \in KeysOf(od)

\* line 356: ok = 200 <= r.status_code < 400, False after an exception
ProbeOk(out) == ~out.raised /\ 200 <= out.status /\ out.status < 400

\* a call as the history keeps it: the URL, the cache before the call, whether
\* a request was sent, what it came to, and what the call returned
ProbeCall(url, before, sent, out, answer) ==
    [url |-> url, before |-> before, sent |-> sent, out |-> out, answer |-> answer]

NoOutcome == Outcome(FALSE, 0)

\* _probe_https_once is called: lines 337-348, up to the await of the request
CallProbe(url) ==
    LET host == host_from_url(HttpsUrl(url)) IN
    /\ probe.pc = "idle"
    /\ Len(probe_calls) < MaxProbes
    /\ IF ~Probed(url)
       THEN /\ probe_calls' = Append(probe_calls, ProbeCall(url, bounded_dict, FALSE, NoOutcome, FALSE))
            /\ UNCHANGED <<probe, bounded_dict, bd_prev, bd_uses, cache_stats>>
       ELSE IF InCache(bounded_dict, host)
       THEN /\ probe_calls' = Append(probe_calls,
                                  ProbeCall(url, bounded_dict, FALSE, NoOutcome,
                                            bounded_dict[PosOf(bounded_dict, host)].value))
            /\ bounded_dict' = move_to_end(bounded_dict, host)
            /\ bd_prev' = bounded_dict
            /\ bd_uses' = bd_uses \o <<[op |-> "in", key |-> host, hit |-> TRUE],
                                       [op |-> "get", key |-> host, hit |-> TRUE]>>
            /\ UNCHANGED <<probe, cache_stats>>
       ELSE /\ cache_stats' = [cache_stats EXCEPT !.https_probes = @ + 1]
            /\ probe' = [pc |-> "probing", host |-> host]
            /\ probe_calls' = Append(probe_calls, ProbeCall(url, bounded_dict, TRUE, NoOutcome, FALSE))
            /\ bd_prev' = bounded_dict
            /\ bd_uses' = Append(bd_uses, [op |-> "in", key |-> host, hit |-> FALSE])
            /\ UNCHANGED bounded_dict
    /\ UNCHANGED <<bd_max_size, matchVars, envVars, clockVars, dedupVars, reqVars, epg_file, changes,
                   epg_cache_data, epg_cache_mtime, epg_index, epg_channel_display,
                   epg_index_max_size, lookups, tmdb_on, tmdb_calls, watchVars, clientVars>>

\* the request returns or raises: lines 349-358
ProbeReturns(out) ==
    LET n == Len(probe_calls) IN
    /\ probe.pc = "probing"
    /\ bounded_dict' = setitem(bounded_dict, probe.host, ProbeOk(out), bd_max_size)
    /\ bd_prev' = bounded_dict
    /\ bd_uses' = Append(bd_uses, [op |-> "set", key |-> probe.host,
                                   hit |-> probe.host \in KeysOf(bounded_dict)])
    /\ probe_calls' = [probe_calls EXCEPT ![n].out = out, ![n].answer = ProbeOk(out)]
    /\ probe' = NoProbe
    /\ UNCHANGED <<bd_max_size, matchVars, envVars, clockVars, dedupVars, reqVars, guideVars,
                   tmdb_on, tmdb_calls, watchVars, clientVars>>

InitProbe ==
    /\ now = 0
    /\ ticks = 0
    /\ notification_cache = << >>
    /\ prev_cache = << >>
    /\ calls = << >>
    /\ InitRequests
    /\ po_configured = TRUE
    /\ api_enabled = TRUE
    /\ guide = "ok"
    /\ InitNoGuide
    /\ InitNoQuery
    /\ InitNoSide
    /\ bd_max_size \in 1..MaxCapacity
    /\ bounded_dict = << >>
    /\ bd_prev = << >>
    /\ bd_uses = << >>

NextProbe ==
    \/ \E url \in ProbeUrls : CallProbe(url)
    \/ \E out \in ProbeOutcomes : ProbeReturns(out)

SpecProbe == InitProbe /\ [][NextProbe]_vars


-----------------------------------------------------------------------------
(* Properties of the HTTPS probe *)

\* the host a URL names, read off the URL's text: what stands between the
\* scheme and the first of / ? # :, in lower case
RECURSIVE HostText(_, _)
HostText(url, i) ==
    IF i > Len(url) \/ CharAt(url, i) \in {"/", "?", "#", ":"} THEN ""
    ELSE LowerChar(CharAt(url, i)) \o HostText(url, i + 1)

\* the URL is plain http, names a host, and the host is not allow-listed
Eligible34(url) ==
    /\ Len(url) > 7
    /\ \A i \in 1..7 : CharAt(url, i) = CharAt("http://", i)
    /\ HostText(url, 8) \notin {"", "localhost", "127.0.0.1", "snappier-server"}

\* the cache holds the host
Holds(od, host) == \E i \in 1..Len(od) : od[i].key = host

SentCalls == {i \in 1..Len(probe_calls) : probe_calls[i].sent}

\* C34: a URL that is not http://, names no host or names an allow-listed host
\* is never probed and never cached; for another host a request is sent only
\* when the cache has no entry for it, each request adds exactly one to
\* https_probes and its result is stored (false after any error), and a host
\* the cache holds is answered from the cache without a request.
C34_ProbeOncePerHost ==
    /\ cache_stats.https_probes = Cardinality(SentCalls)
    /\ \A i \in 1..Len(bounded_dict) :
          \E j \in SentCalls : Eligible34(probe_calls[j].url)
                                /\ HostText(probe_calls[j].url, 8) = bounded_dict[i].key
    /\ \A i \in 1..Len(probe_calls) :
          LET c == probe_calls[i]
              host == HostText(c.url, 8)
          IN  /\ ~Eligible34(c.url) => (~c.sent /\ c.answer = FALSE)
              /\ c.sent <=> (Eligible34(c.url) /\ ~Holds(c.before, host))
              /\ (Eligible34(c.url) /\ Holds(c.before, host)) =>
                    \E k \in 1..Len(c.before) :
                        c.before[k].key = host /\ c.answer = c.before[k].value
              /\ (c.sent /\ c.out.raised) => c.answer = FALSE
    /\ (probe.pc = "idle" /\ probe_calls # << >> /\ probe_calls[Len(probe_calls)].sent) =>
          LET c == probe_calls[Len(probe_calls)] IN
          bounded_dict[Len(bounded_dict)] = [key |-> HostText(c.url, 8), value |-> c.answer]

\* a host was probed and found to serve https, then asked about again under
\* another spelling of its URL: the second call sent nothing and answered TRUE
C34_Witness ==
    \E i, j \in 1..Len(probe_calls) :
        /\ i < j
        /\ probe_calls[i].sent /\ probe_calls[i].answer = TRUE
        /\ probe_calls[i].url # probe_calls[j].url
        /\ HostText(probe_calls[i].url, 8) = HostText(probe_calls[j].url, 8)
        /\ Eligible34(probe_calls[j].url)
        /\ ~probe_calls[j].sent /\ probe_calls[j].answer = TRUE
        /\ cache_stats.https_probes = 1

\* a host whose entry was evicted is probed a second time
ProbedAgainAfterEviction ==
    \E i, j \in 1..Len(probe_calls) :
        /\ i < j
        /\ probe_calls[i].sent /\ probe_calls[j].sent /\ probe.pc = "idle"
        /\ HostText(probe_calls[i].url, 8) = HostText(probe_calls[j].url, 8)


-----------------------------------------------------------------------------
(* The catalog searches: search_tmdb_movie and search_tmdb_tv over the
   BoundedDict _tmdb_cache; requests.get() blocks, so a search is one step *)

MaxSearches == 2

SearchTitles == {"", "Heat"}
\* year: None (0) or a year
SearchYears == {0, 1995}

\* the first entry of 'results': its overview, its genres and its date, which
\* the catalog may leave out or send as null
FirstResult(overview, has_date, date, genres) ==
    [overview |-> overview, has_date |-> has_date, date |-> date, genres |-> genres]

\* what requests.get() comes to: it raises; a status that is not ok; an empty
\* 'results'; a first result
Reply(kind, result) == [kind |-> kind, result |-> result]
NoResult == FirstResult("", FALSE, "", << >>)
SearchReplies ==
    { Reply("exception", NoResult), Reply("http_error", NoResult), Reply("no_results", NoResult),
      Reply("results", FirstResult("A heist goes wrong.", TRUE, "1995-12-15", <<"Crime">>)),
      Reply("results", FirstResult("A heist goes wrong.", TRUE, "", <<"Crime">>)),
      Reply("results", FirstResult("A heist goes wrong.", FALSE, "", <<"Crime">>)) }

\* lines 136 and 296: f"{title}:{year}" if year else title, with "tv:" before it
\* for a series
CacheKeyOf(fn, title, year) ==
    (IF fn = "tv" THEN "tv:" ELSE "")
        \o (IF year # 0 THEN title \o ":" \o ToString(year) ELSE title)

\* lines 175-187: the metadata made of the first result; movie.get('release_date')
\* is None when the date is left out
MetadataOf(result) ==
    TmdbMeta(result.overview, IF result.has_date THEN result.date ELSE "", result.genres)

\* lines 191 and 351: metadata.get('release_date', 'unknown')[:4] inside the
\* print raises TypeError when the date is None
PrintRaises(result) == ~result.has_date

\* the mutant of AfterRequest: an answer with a status that is not ok is cached as None
AfterRequestCachingErrors(od, key, reply, n) ==
    CASE reply.kind = "exception" -> [exit |-> "except", cache |-> od, returned |-> NoTmdb]
      [] reply.kind = "http_error" ->
            [exit |-> "http_error", cache |-> setitem(od, key, NoTmdb, n), returned |-> NoTmdb]
      [] reply.kind = "no_results" ->
            [exit |-> "no_results", cache |-> setitem(od, key, NoTmdb, n), returned |-> NoTmdb]
      [] OTHER ->
            [exit |-> IF PrintRaises(reply.result) THEN "except" ELSE "found",
             cache |-> setitem(od, key, MetadataOf(reply.result), n),
             returned |-> IF PrintRaises(reply.result) THEN NoTmdb
                          ELSE MetadataOf(reply.result)]

\* lines 141-197 and 301-357: the return the search leaves through, the cache
\* it leaves and what it returns, given what requests.get() came to
AfterRequest(od, key, reply, n) ==
    CASE reply.kind = "exception" -> [exit |-> "except", cache |-> od, returned |-> NoTmdb]
      [] reply.kind = "http_error" -> [exit |-> "http_error", cache |-> od, returned |-> NoTmdb]
      [] reply.kind = "no_results" ->
            [exit |-> "no_results", cache |-> setitem(od, key, NoTmdb, n), returned |-> NoTmdb]
      [] OTHER ->
            [exit |-> IF PrintRaises(reply.result) THEN "except" ELSE "found",
             cache |-> setitem(od, key, MetadataOf(reply.result), n),
             returned |-> IF PrintRaises(reply.result) THEN NoTmdb
                          ELSE MetadataOf(reply.result)]

\* a search as the history keeps it
Search(fn, title, year, before, sent, reply, exit, after, returned) ==
    [fn |-> fn, title |-> title, year |-> year, before |-> before, sent |-> sent,
     reply |-> reply, exit |-> exit, after |-> after, returned |-> returned]

NoReply == Reply("none", NoResult)

\* search_tmdb_movie(title, year) or search_tmdb_tv(title, year)
SearchTmdb(fn, title, year, reply) ==
    LET key == CacheKeyOf(fn, title, year)
        done == AfterRequest(bounded_dict, key, reply, bd_max_size)
    IN
    /\ Len(tmdb_calls) < MaxSearches
    /\ bd_prev' = bounded_dict
    /\ IF ~tmdb_on \/ title = ""
       THEN /\ tmdb_calls' = Append(tmdb_calls,
                                 Search(fn, title, year, bounded_dict, FALSE, NoReply, "disabled",
                                        bounded_dict, NoTmdb))
            /\ UNCHANGED <<bounded_dict, bd_uses>>
       ELSE IF key \in KeysOf(bounded_dict)
       THEN /\ bounded_dict' = move_to_end(bounded_dict, key)
            /\ bd_uses' = bd_uses \o <<[op |-> "in", key |-> key, hit |-> TRUE],
                                       [op |-> "get", key |-> key, hit |-> TRUE]>>
            /\ tmdb_calls' = Append(tmdb_calls,
                                 Search(fn, title, year, bounded_dict, FALSE, NoReply, "cached",
                                        bounded_dict', bounded_dict[PosOf(bounded_dict, key)].value))
       ELSE /\ bounded_dict' = done.cache
            /\ bd_uses' = bd_uses \o <<[op |-> "in", key |-> key, hit |-> FALSE]>>
                              \o (IF done.cache # bounded_dict
                                  THEN <<[op |-> "set", key |-> key, hit |-> FALSE]>> ELSE << >>)
            /\ tmdb_calls' = Append(tmdb_calls,
                                 Search(fn, title, year, bounded_dict, TRUE, reply, done.exit,
                                        done.cache, done.returned))
    /\ UNCHANGED <<bd_max_size, matchVars, envVars, clockVars, dedupVars, reqVars, guideVars,
                   probe, probe_calls, tmdb_on, watchVars, clientVars>>

InitSearch ==
    /\ now = 0
    /\ ticks = 0
    /\ notification_cache = << >>
    /\ prev_cache = << >>
    /\ calls = << >>
    /\ InitRequests
    /\ po_configured = TRUE
    /\ api_enabled = TRUE
    /\ guide = "ok"
    /\ InitNoGuide
    /\ InitNoQuery
    /\ InitNoProbe
    /\ InitNoWatch
    /\ InitNoClient
    /\ tmdb_on \in BOOLEAN
    /\ tmdb_calls = << >>
    /\ bd_max_size \in 1..MaxCapacity
    /\ bounded_dict = << >>
    /\ bd_prev = << >>
    /\ bd_uses = << >>

NextSearch ==
    \E fn \in {"movie", "tv"}, title \in SearchTitles, year \in SearchYears,
       reply \in SearchReplies : SearchTmdb(fn, title, year, reply)

SpecSearch == InitSearch /\ [][NextSearch]_vars


-----------------------------------------------------------------------------
(* Properties of the catalog searches *)

\* the key a search is cached under, read off its arguments
KeyText(c) ==
    LET base == IF c.year = 0 THEN c.title ELSE c.title \o ":" \o ToString(c.year)
    IN  IF c.fn = "tv" THEN "tv:" \o base ELSE base

HasKey(od, key) == \E i \in 1..Len(od) : od[i].key = key

\* what the search answers from the cache
CachedAnswers(c) ==
    {c.before[k].value : k \in {k \in 1..Len(c.before) : c.before[k].key = KeyText(c)}}

\* the search was answered with results or with none, and returned that
Completed(c) == c.exit \in {"found", "no_results"}

\* the search left through the status test or through the except clause
Failed(c) == c.exit \in {"http_error", "except"}

\* the rules of the cache that hold of every search
SearchRules(c) ==
    /\ c.sent <=> (tmdb_on /\ c.title # "" /\ ~HasKey(c.before, KeyText(c)))
    /\ (tmdb_on /\ c.title # "" /\ HasKey(c.before, KeyText(c))) => c.returned \in CachedAnswers(c)
    /\ Completed(c) => HasKey(c.after, KeyText(c))
    /\ c.returned # TmdbRaised

\* C35 (as claimed): a completed search is cached under its key, found or not,
\* and a repeat of it sends no request while the entry is cached; a search that
\* ended in an error status or an exception is not cached, so the next
\* identical search sends a request; no failure raises to the caller.
C35_OnlyCompletedSearchesCached ==
    \A i \in 1..Len(tmdb_calls) :
        /\ SearchRules(tmdb_calls[i])
        /\ Failed(tmdb_calls[i]) => ~HasKey(tmdb_calls[i].after, KeyText(tmdb_calls[i]))

\* what holds: the rules above, and a search whose request raised or was
\* answered with a status that is not ok is not cached
RequestFailuresNotCached ==
    \A i \in 1..Len(tmdb_calls) :
        /\ SearchRules(tmdb_calls[i])
        /\ (tmdb_calls[i].sent /\ tmdb_calls[i].reply.kind \in {"exception", "http_error"}) =>
                ~HasKey(tmdb_calls[i].after, KeyText(tmdb_calls[i]))

\* a search found a record without a date: it left through the except clause
\* and returned None, and the same search made again sent nothing and returned
\* the record
NoneThenRecord ==
    \E i, j \in 1..Len(tmdb_calls) :
        /\ i < j
        /\ KeyText(tmdb_calls[i]) = KeyText(tmdb_calls[j])
        /\ tmdb_calls[i].sent /\ tmdb_calls[i].exit = "except"
        /\ tmdb_calls[i].returned = NoTmdb
        /\ ~tmdb_calls[j].sent /\ tmdb_calls[j].returned.kind = "meta"

\* a search answered with an error status is made again and sends a request again
RetriedAfterError ==
    \E i, j \in 1..Len(tmdb_calls) :
        /\ i < j
        /\ KeyText(tmdb_calls[i]) = KeyText(tmdb_calls[j])
        /\ tmdb_calls[i].exit = "http_error" /\ tmdb_calls[j].sent


-----------------------------------------------------------------------------
(* The health watcher: scripts/health_watcher.py *)

\* how many rounds of the loop are followed
MaxRounds == 4
\* the largest --fail-threshold and --warn-cooldown tried
MaxThreshold == 2
MaxCooldown == 2
\* the longest a round takes, probe and sleep together, in seconds
MaxRound == 2

\* time.time() when the watcher starts: the epoch is further back than any cooldown
StartTime == MaxCooldown + 1

\* what the probe of a round met: a status in the expected range, a status
\* outside it, or an exception of requests.get
ProbeResults == {"expected", "unexpected", "raised"}
\* what the POST of the warning met
PostResults == {"sent", "raised"}

\* line 27 and line 34: the value of ok
ProbeIsOk(result) == result = "expected"

\* lines 28-35: the failure count after the probe
BadCountAfter(bad_count, result) == IF ProbeIsOk(result) THEN 0 ELSE bad_count + 1

WarnDueWithoutCooldown(bad_count, t0, last_warn_ts, fail_threshold, warn_cooldown) ==
    bad_count >= fail_threshold

\* line 39: the test of the warning
WarnDue(bad_count, t0, last_warn_ts, fail_threshold, warn_cooldown) ==
    bad_count >= fail_threshold /\ (t0 - last_warn_ts) >= warn_cooldown

\* one round, as the log keeps it
Round(t0, result, bad_count, posted, post, last_warn_ts) ==
    [t0 |-> t0, result |-> result, bad_count |-> bad_count, posted |-> posted, post |-> post,
     last_warn_ts |-> last_warn_ts]

\* lines 23-53: one round of the loop, the probe, the warning and the sleep
WatchRound(result, post, took) ==
    LET t0 == watch.time
        bad == BadCountAfter(watch.bad_count, result)
        warn == ~ProbeIsOk(result)
                    /\ WarnDue(bad, t0, watch.last_warn_ts, watch.fail_threshold, watch.warn_cooldown)
        last == IF warn THEN t0 ELSE watch.last_warn_ts
    IN  /\ Len(watch_log) < MaxRounds
        /\ warn \/ post = "none"
        /\ warn => post \in PostResults
        /\ watch' = [watch EXCEPT !.bad_count = bad, !.last_warn_ts = last, !.time = t0 + took]
        /\ watch_log' = Append(watch_log, Round(t0, result, bad, warn, post, last))
        /\ UNCHANGED <<clockVars, dedupVars, envVars, reqVars, guideVars, lruVars, matchVars,
                       probe, probe_calls, tmdb_on, tmdb_calls, clientVars>>

InitWatch ==
    /\ now = 0
    /\ ticks = 0
    /\ notification_cache = << >>
    /\ prev_cache = << >>
    /\ calls = << >>
    /\ InitRequests
    /\ po_configured = TRUE
    /\ api_enabled = TRUE
    /\ guide = "ok"
    /\ InitNoGuide
    /\ InitNoQuery
    /\ InitNoDict
    /\ InitNoProbe
    /\ InitNoSearch
    /\ InitNoClient
    /\ \E threshold \in 1..MaxThreshold, cooldown \in {0, MaxCooldown} :
            watch = [bad_count |-> 0, last_warn_ts |-> 0, time |-> StartTime,
                     fail_threshold |-> threshold, warn_cooldown |-> cooldown]
    /\ watch_log = << >>

NextWatch ==
    \E result \in ProbeResults, post \in PostResults \cup {"none"}, took \in 1..MaxRound :
        WatchRound(result, post, took)

SpecWatch == InitWatch /\ [][NextWatch]_vars


-----------------------------------------------------------------------------
(* Properties of the health watcher *)

\* the rounds before round i that attempted a warning
AttemptsBefore(i) == {j \in 1..(i - 1) : watch_log[j].posted}

\* the probes that failed in a row up to round i, counted on the log
RECURSIVE FailedInARow(_)
FailedInARow(i) ==
    IF i = 0 \/ watch_log[i].result = "expected" THEN 0 ELSE 1 + FailedInARow(i - 1)

\* C36: a warning is posted only in a round whose probe failed, with at least
\* fail_threshold failures in a row since the last success and at least
\* warn_cooldown seconds since the previous attempt; a successful probe resets
\* the count and posts nothing; an attempt whose POST raised starts the
\* cooldown like any other.
C36_WarningsAreRationed ==
    \A i \in 1..Len(watch_log) :
        LET r == watch_log[i] IN
        /\ r.posted =>
                /\ r.result # "expected"
                /\ FailedInARow(i) >= watch.fail_threshold
                /\ \A j \in AttemptsBefore(i) : r.t0 - watch_log[j].t0 >= watch.warn_cooldown
                /\ r.last_warn_ts = r.t0
        /\ r.result = "expected" => (r.bad_count = 0 /\ ~r.posted)
        /\ r.bad_count = FailedInARow(i)

\* reached: a warning whose POST raised, then a failing round within the
\* cooldown that posts nothing, then a warning once the cooldown is over
C36_Witness ==
    \E i, j, k \in 1..Len(watch_log) :
        /\ i < j /\ j < k
        /\ watch_log[i].posted /\ watch_log[i].post = "raised"
        /\ watch_log[j].result # "expected" /\ ~watch_log[j].posted
        /\ watch_log[j].bad_count >= watch.fail_threshold
        /\ watch_log[j].t0 - watch_log[i].t0 < watch.warn_cooldown
        /\ watch_log[k].posted
        /\ watch.fail_threshold > 1

\* reached: a success between failures starts the count again
CountStartsAgain ==
    \E i \in 2..Len(watch_log) :
        /\ watch_log[i - 1].bad_count >= 1
        /\ watch_log[i].result = "expected"
        /\ Len(watch_log) > i /\ watch_log[i + 1].bad_count = 1 /\ ~watch_log[i + 1].posted
        /\ watch.fail_threshold > 1


-----------------------------------------------------------------------------
(* The notification client: notification_client.py *)

\* lines 25-26
max_reconnect_attempts == 5
reconnect_delay == 1

RECURSIVE TwoToThe(_)
TwoToThe(n) == IF n = 0 THEN 1 ELSE 2 * TwoToThe(n - 1)

BackoffLinear(attempts) == reconnect_delay * attempts

\* line 126: the delay of the reconnect that 'attempts' now counts
Backoff(attempts) == reconnect_delay * TwoToThe(attempts - 1)

\* one entry of the log of the client
Event(ev, n, delay) == [ev |-> ev, n |-> n, delay |-> delay]

\* the log keeps the first call of disconnect and what happened since the
\* latest open
FirstDisconnect == SelectSeq(client_log, LAMBDA e : e.ev = "disconnect")

\* lines 119-135, _reconnect_websocket: nothing once the attempts are used up,
\* otherwise one more attempt and a thread that sleeps for the delay
ReconnectWebsocket(connected) ==
    IF client.reconnect_attempts >= max_reconnect_attempts
    THEN /\ client' = [client EXCEPT !.ws_connected = connected,
                                     !.ws = IF @ = "live" THEN "dead" ELSE @]
         /\ conn' = [pc |-> "idle", delay |-> 0, slept |-> 0]
         /\ client_log' = Append(client_log, Event("gave_up", client.reconnect_attempts, 0))
    ELSE LET n == client.reconnect_attempts + 1 IN
         /\ client' = [client EXCEPT !.ws_connected = connected, !.reconnect_attempts = n,
                                     !.ws = IF @ = "live" THEN "dead" ELSE @]
         /\ conn' = [pc |-> "sleeping", delay |-> Backoff(n), slept |-> 0]
         /\ client_log' = Append(client_log, Event("schedule", n, Backoff(n)))

OtherThanClient ==
    <<clockVars, dedupVars, envVars, reqVars, guideVars, lruVars, matchVars,
      probe, probe_calls, tmdb_on, tmdb_calls, watchVars>>

\* lines 79-91, the thread of _connect_websocket: the WebSocketApp is made and
\* run_forever starts, or an exception is caught and a reconnect follows
Connect(raised) ==
    /\ conn.pc = "start"
    /\ IF raised
       THEN ReconnectWebsocket(client.ws_connected)
       ELSE /\ client' = [client EXCEPT !.ws = "live"]
            /\ conn' = [conn EXCEPT !.pc = "running"]
            /\ UNCHANGED client_log
    /\ UNCHANGED <<ws_calls, OtherThanClient>>

\* lines 96-99, _on_ws_open
OnWsOpen ==
    /\ conn.pc = "running"
    /\ client' = [client EXCEPT !.ws_connected = TRUE, !.reconnect_attempts = 0]
    /\ conn' = [conn EXCEPT !.pc = "open"]
    /\ client_log' = Append(FirstDisconnect, Event("open", client.reconnect_attempts, 0))
    /\ UNCHANGED <<ws_calls, OtherThanClient>>

\* lines 110-112, _on_ws_error: the connection failed or broke, run_forever
\* goes on to close it
OnWsError ==
    /\ conn.pc \in {"running", "open"}
    /\ client' = [client EXCEPT !.ws_connected = FALSE]
    /\ conn' = [conn EXCEPT !.pc = "closing"]
    /\ UNCHANGED <<client_log, ws_calls, OtherThanClient>>

\* lines 114-117, _on_ws_close: the connection is over, by the peer, after an
\* error or after close()
OnWsClose ==
    /\ conn.pc \in {"open", "closing"}
    /\ ReconnectWebsocket(FALSE)
    /\ UNCHANGED <<ws_calls, OtherThanClient>>

\* line 131: the sleep of delayed_reconnect, time.sleep(delay)
Sleep ==
    /\ conn.pc = "sleeping"
    /\ conn.slept < conn.delay
    /\ conn' = [conn EXCEPT !.slept = conn.delay]
    /\ UNCHANGED <<client, client_log, ws_calls, OtherThanClient>>

\* line 132: the sleep is over, _connect_websocket starts a thread
DelayedReconnect ==
    /\ conn.pc = "sleeping"
    /\ conn.slept = conn.delay
    /\ conn' = [conn EXCEPT !.pc = "start"]
    /\ client_log' = Append(client_log, Event("connect", client.reconnect_attempts, conn.slept))
    /\ UNCHANGED <<client, ws_calls, OtherThanClient>>

\* lines 170-175, disconnect: close() ends a connection that run_forever is
\* serving, and has no effect on one that is over or not begun
Disconnect(effective) ==
    /\ client' = [client EXCEPT !.ws = "none", !.ws_connected = FALSE]
    /\ conn' = IF client.ws = "live" /\ (conn.pc = "open" \/ (conn.pc = "running" /\ effective))
               THEN [conn EXCEPT !.pc = "closing"]
               ELSE conn
    /\ client_log' = IF FirstDisconnect = << >>
                     THEN Append(client_log, Event("disconnect", client.reconnect_attempts, 0))
                     ELSE client_log
    /\ UNCHANGED <<ws_calls, OtherThanClient>>

\* what requests.post met: an answer in JSON, an answer that is not JSON
\* (response.json() raises requests' JSONDecodeError, a RequestException), or a
\* RequestException of the request itself
HttpResults == {"json", "not_json", "raised"}
\* what ws.send met
SendResults == {"ok", "raised"}

WsReturn(kind) == [kind |-> kind]

\* lines 32-52, notify: one POST, and its answer or the failure record
Notify(http) ==
    [posts |-> <<http>>,
     returned |-> IF http = "json" THEN WsReturn("answer") ELSE WsReturn("failure")]

NotifyWsWithoutFallback(connected, send, http) ==
    IF ~connected
    THEN Notify(http)
    ELSE [posts |-> << >>, returned |-> IF send = "ok" THEN WsReturn("success") ELSE WsReturn("failure")]

\* lines 54-75, notify_ws: over HTTP when not connected or when send raises
NotifyWsDone(connected, send, http) ==
    IF ~connected
    THEN Notify(http)
    ELSE IF send = "ok"
         THEN [posts |-> << >>, returned |-> WsReturn("success")]
         ELSE Notify(http)

WsCall(connected, ws, send, http, posts, returned) ==
    [connected |-> connected, ws |-> ws, send |-> send, http |-> http, posts |-> posts,
     returned |-> returned]

\* a call of notify_ws; send raises when self.ws is None
NotifyWs(send, http) ==
    LET connected == client.ws_connected
        tried == IF connected THEN send ELSE "none"
        done == NotifyWsDone(connected, send, http)
    IN  /\ (connected /\ client.ws = "none") => send = "raised"
        /\ (~connected) => send = "raised"
        /\ (connected /\ send = "ok") => http = "json"
        /\ ws_calls' = <<WsCall(connected, client.ws, tried,
                                IF done.posts = << >> THEN "none" ELSE http,
                                done.posts, done.returned)>>
        /\ UNCHANGED <<client, conn, client_log, OtherThanClient>>

InitClient ==
    /\ now = 0
    /\ ticks = 0
    /\ notification_cache = << >>
    /\ prev_cache = << >>
    /\ calls = << >>
    /\ InitRequests
    /\ po_configured = TRUE
    /\ api_enabled = TRUE
    /\ guide = "ok"
    /\ InitNoGuide
    /\ InitNoQuery
    /\ InitNoDict
    /\ InitNoProbe
    /\ InitNoSearch
    /\ InitNoWatch
    /\ client = NoClient
    \* lines 29-30: use_websocket or not
    /\ \E use_websocket \in BOOLEAN :
            conn = [pc |-> IF use_websocket THEN "start" ELSE "idle", delay |-> 0, slept |-> 0]
    /\ client_log = << >>
    /\ ws_calls = << >>

NextClient ==
    \/ \E raised \in BOOLEAN : Connect(raised)
    \/ OnWsOpen
    \/ OnWsError
    \/ OnWsClose
    \/ Sleep
    \/ DelayedReconnect
    \/ \E effective \in BOOLEAN : Disconnect(effective)
    \/ \E send \in SendResults, http \in HttpResults : NotifyWs(send, http)

SpecClient == InitClient /\ [][NextClient]_vars


-----------------------------------------------------------------------------
(* Properties of the reconnects of the client *)

\* the reconnects scheduled since the latest open before entry i, on the log
RECURSIVE ScheduledSinceOpen(_)
ScheduledSinceOpen(i) ==
    IF i = 0 \/ client_log[i].ev = "open" THEN 0
    ELSE (IF client_log[i].ev = "schedule" THEN 1 ELSE 0) + ScheduledSinceOpen(i - 1)

\* the latest reconnect scheduled before entry i, 0 if none
RECURSIVE LatestSchedule(_)
LatestSchedule(i) ==
    IF i = 0 THEN 0 ELSE IF client_log[i].ev = "schedule" THEN i ELSE LatestSchedule(i - 1)

\* C37: between two opens at most max_reconnect_attempts reconnects are
\* scheduled; the n-th in a row waits reconnect_delay * 2^(n-1) seconds before it
\* connects; an open sets the counter to 0; with the counter at the maximum
\* nothing more is scheduled.
C37_ReconnectsBackOffAndStop ==
    /\ client.reconnect_attempts = ScheduledSinceOpen(Len(client_log))
    /\ \A i \in 1..Len(client_log) :
        LET e == client_log[i]
            n == ScheduledSinceOpen(i) IN
        /\ e.ev = "schedule" =>
                /\ n <= max_reconnect_attempts
                /\ e.n = n
                /\ (n = 1 => e.delay = reconnect_delay)
                /\ (n > 1 => e.delay = 2 * client_log[LatestSchedule(i - 1)].delay)
        /\ (e.ev = "connect" /\ LatestSchedule(i) # 0) =>
                (i = 1 + LatestSchedule(i) \/ client_log[i - 1].ev = "disconnect")
                /\ e.delay = client_log[LatestSchedule(i)].delay
        /\ e.ev = "gave_up" => ScheduledSinceOpen(i) = max_reconnect_attempts
    /\ conn.pc = "sleeping" => conn.delay = client_log[LatestSchedule(Len(client_log))].delay

\* reached: a connection opened at the second reconnect, which set the counter
\* back, and after it five reconnects failed in a row and the client gave up
C37_Witness ==
    /\ \E i \in 1..Len(client_log) : client_log[i].ev = "gave_up"
    /\ \E i \in 1..Len(client_log) : client_log[i].ev = "schedule" /\ client_log[i].delay = 16
    /\ \E i, j \in 1..Len(client_log) :
            /\ i < j
            /\ client_log[i].ev = "open" /\ client_log[i].n = 2
            /\ client_log[j].ev = "schedule" /\ client_log[j].n = 1
    /\ conn.pc = "idle"


-----------------------------------------------------------------------------
(* Properties of the client after disconnect *)

\* C38 (as claimed): once disconnect() has been called the client stays
\* disconnected: ws_connected is false and no connection is started or opened
\* for it afterwards.
C38_StaysDisconnected ==
    \A i \in 1..Len(client_log) :
        client_log[i].ev = "disconnect" =>
            /\ ~client.ws_connected
            /\ \A j \in (i + 1)..Len(client_log) : client_log[j].ev \notin {"connect", "open"}

\* what holds: on return from disconnect() the client holds no connection and
\* is not connected
DisconnectedOnReturn ==
    [][(\E effective \in BOOLEAN : Disconnect(effective))
            => (~client'.ws_connected /\ client'.ws = "none")]_vars

\* reached: a connection was open, disconnect() closed it, the close callback
\* scheduled the first reconnect, and the client is connected again
ReopenedAfterDisconnect ==
    /\ Len(client_log) = 2
    /\ client_log[1].ev = "disconnect"
    /\ client_log[2].ev = "open" /\ client_log[2].n = 1
    /\ client.ws_connected /\ client.ws = "live"

\* reached: the attempts were used up when disconnect() was called, and
\* nothing followed
DisconnectedForGood ==
    /\ Len(client_log) > 1
    /\ client_log[Len(client_log)].ev = "disconnect"
    /\ client_log[Len(client_log) - 1].ev = "gave_up"
    /\ conn.pc = "idle"

-----------------------------------------------------------------------------
(* Properties of notify_ws *)

SentOverWebSocket ==
    \E i \in 1..Len(ws_calls) :
        ws_calls[i].connected /\ ws_calls[i].send = "ok" /\ ws_calls[i].posts = << >>

\* reached: the client was not connected and the POST failed
PostedAndFailed ==
    \E i \in 1..Len(ws_calls) :
        ~ws_calls[i].connected /\ ws_calls[i].posts = <<"raised">>
            /\ ws_calls[i].returned.kind = "failure"

====
